---- MODULE Spec2Model ----
(***************************************************************************)
(* A model of the IPTV player's subtitle manager (SubtitleManager), its    *)
(* channel loader (IPServerLoader), its playlist parser (M3UParser) and    *)
(* the storage manager (IPTVStorage): the subtitle providers, the saved    *)
(* subtitles, the playlists, the IP servers and the channels.              *)
(*                                                                         *)
(* Every async function is split at its awaits: one action runs the code   *)
(* from one suspension point to the next.  An invocation is a "proc"; the  *)
(* frames of searchSubtitles and autoLoadSubtitles are kept per proc, so   *)
(* that several invocations can be in flight at once.                      *)
(***************************************************************************)
EXTENDS Integers, Sequences, FiniteSets, TLC

VARIABLES
    servers,      \* localStorage[SUBTITLE_SERVERS_KEY]: the configured providers, in order
    localSubs,    \* localStorage[LOCAL_SUBTITLES_KEY]: the locally cached subtitles
    subtitles,    \* localStorage[CHANNEL_SUBTITLES_KEY]: (channelId, language) -> saved subtitle
    srch,         \* per proc: the frame of searchSubtitles
    auto,         \* per proc: the frame of autoLoadSubtitles
    net,          \* per proc: the network requests issued so far, in order
    ld,           \* the frame of loadChannels
    tc,           \* the frame of testConnection
    playlists,    \* localStorage[PLAYLISTS_KEY]: the playlists, in order
    ipServers,    \* localStorage[IPSERVERS_KEY]: the IP servers, in order
    iptvChannels, \* localStorage[CHANNELS_KEY] ('iptv_channels'): the channels, in order
    nextId,       \* generateId has produced the ids 1 .. nextId - 1
    st,           \* the last call of a storage operation: its arguments and the store before it
    pure,         \* the frame of a call of a pure function: its input, then its output
    dl            \* the frame of a downloadSubtitle call made by the page

storeVars == <<playlists, ipServers, iptvChannels, nextId, st>>

vars == <<servers, localSubs, subtitles, srch, auto, net, ld, tc, storeVars, pure, dl>>

(***************************************************************************)
(* Bounds of the model.                                                    *)
(***************************************************************************)
MaxServers == 2      \* configured subtitle providers
MaxResults == 2      \* items in one provider response
MaxProcs == 2        \* invocations that may be in flight
MaxStreams == 2      \* elements of an Xtream JSON array
MaxLines == 2        \* lines of an M3U body
MaxPathLen == 2      \* tokens of a descriptor's apiPath
MaxIds == 4          \* ids generateId returns
MaxM3ULines == 5     \* lines of a playlist handed to M3UParser.parse
MaxChars == 5        \* tokens of a playlist text
MaxSrtLen == 6       \* tokens of a subtitle text handed to convertSRTtoVTT

Procs == 1..MaxProcs
Solo == {1}
Langs == {"en", "ar"}
Formats == {"srt", "vtt"}
ChannelIds == {5}
StoredChannelIds == ChannelIds \cup {6}
Null == [null |-> TRUE]

(***************************************************************************)
(* Sequence helpers.                                                       *)
(***************************************************************************)
Range(s) == {s[k] : k \in 1..Len(s)}

RECURSIVE FlatSeq(_)
FlatSeq(ss) == IF Len(ss) = 0 THEN <<>> ELSE Head(ss) \o FlatSeq(Tail(ss))

(***************************************************************************)
(* Storage: the subtitle providers, the local subtitles, the saved         *)
(* subtitles.  A provider is [serverType, apiKey, languages, autoLoad];    *)
(* apiKey is whether a key is configured, languages is the list the user   *)
(* entered, in order.  The generated id and createdAt are left out: no     *)
(* code modelled here reads them.                                          *)
(***************************************************************************)
ServerTypes == {"opensubtitles", "custom", "local", "other"}

LangLists == {<<"en">>, <<"ar">>, <<"en", "ar">>, <<"ar", "en">>, <<>>}

\* The providers a search is run against.
SearchConfigs ==
    [serverType : {"opensubtitles"}, apiKey : BOOLEAN, languages : {<<"en">>, <<"ar">>},
     autoLoad : {FALSE}]
    \cup [serverType : {"custom", "local", "other"}, apiKey : {FALSE},
          languages : {<<"en">>, <<"ar">>, <<"en", "ar">>}, autoLoad : {FALSE}]

\* A locally cached subtitle, as addLocalSubtitle stored it.
LocalSub(id, language) ==
    [id |-> id, format |-> "srt", serverType |-> "local", serverInfo |-> 0,
     language |-> language]

LocalLists == {<<>>, <<LocalSub(1, "en"), LocalSub(2, "ar"), LocalSub(3, "en")>>}

NoFrame == [pc |-> "idle"]

AllIdle ==
    /\ \A p \in Procs : srch[p].pc = "idle" /\ auto[p].pc = "idle"
    /\ ld.pc = "idle"
    /\ tc.pc = "idle"

\* addSubtitleServer: push the provider at the end of the stored list.
AddSubtitleServer(Configs) ==
    /\ AllIdle
    /\ Len(servers) < MaxServers
    /\ \E cfg \in Configs : servers' = Append(servers, cfg)
    /\ UNCHANGED <<localSubs, subtitles, srch, auto, net, ld, tc>>
    /\ UNCHANGED <<storeVars, pure, dl>>

\* addLocalSubtitle, as many times as the list is long.
AddLocalSubtitles ==
    /\ AllIdle
    /\ localSubs = <<>>
    /\ \E l \in LocalLists \ {<<>>} : localSubs' = l
    /\ UNCHANGED <<servers, subtitles, srch, auto, net, ld, tc>>
    /\ UNCHANGED <<storeVars, pure, dl>>

(***************************************************************************)
(* What a provider's endpoint answers to one request.                      *)
(*   reject     the request fails (fetch rejects)                          *)
(*   status     a non-2xx status                                           *)
(*   malformed  a 2xx status whose body is not JSON (json() rejects)       *)
(*   mismatch   JSON of another shape than the protocol's: no data array   *)
(*              for opensubtitles, not an array for a custom API           *)
(*   items      the protocol's shape, carrying the items; an item that is  *)
(*              not good lacks the fields the mapping reads (a null        *)
(*              element, no attributes.files)                              *)
(***************************************************************************)
RawItems(n, f, bad) ==
    [k \in 1..n |-> [id |-> k,
                     format |-> IF k = 1 THEN f ELSE "srt",
                     good |-> ~(bad /\ k = n)]]

ItemSeqs ==
    {<<>>}
    \cup {RawItems(n, f, FALSE) : n \in 1..MaxResults, f \in Formats \cup {""}}
    \cup {RawItems(n, "srt", TRUE) : n \in 1..MaxResults}

Response(kind, items) == [kind |-> kind, items |-> items]

Responses ==
    {Response(k, <<>>) : k \in {"reject", "status", "malformed", "mismatch"}}
    \cup {Response("items", its) : its \in ItemSeqs}

NoResponse == Response("none", <<>>)

(***************************************************************************)
(* searchOnServer and the three provider kinds.  The result of a call is   *)
(* [ok, results, err]: it returned results, or it threw err.               *)
(***************************************************************************)
Returned(results) == [ok |-> TRUE, results |-> results, err |-> ""]
Threw(err) == [ok |-> FALSE, results |-> <<>>, err |-> err]

AllGood(items) == \A k \in 1..Len(items) : items[k].good

\* Whether searchOnServer issues a request to the provider's endpoint.
NeedsFetch(server) ==
    \/ server.serverType = "opensubtitles" /\ server.apiKey
    \/ server.serverType = "custom"

searchOpenSubtitles(server, i, language, resp) ==
    IF ~server.apiKey THEN Threw("OpenSubtitles requires an API key")
    ELSE IF resp.kind = "reject" THEN Threw("fetch rejected")
    ELSE IF resp.kind = "status" THEN Threw("OpenSubtitles API error")
    ELSE IF resp.kind = "malformed" THEN Threw("json rejected")
    ELSE IF resp.kind = "mismatch" THEN Returned(<<>>)
    ELSE IF ~AllGood(resp.items) THEN Threw("TypeError in map")
    ELSE Returned([k \in 1..Len(resp.items) |->
                    [id |-> resp.items[k].id,
                     format |-> resp.items[k].format,
                     serverType |-> "opensubtitles",
                     serverInfo |-> i,
                     language |-> language]])

searchCustomAPI(server, i, language, resp) ==
    IF resp.kind = "reject" THEN Threw("fetch rejected")
    ELSE IF resp.kind = "status" THEN Threw("Custom API error")
    ELSE IF resp.kind = "malformed" THEN Threw("json rejected")
    ELSE IF resp.kind = "mismatch" THEN Threw("data.map is not a function")
    ELSE IF ~AllGood(resp.items) THEN Threw("TypeError in map")
    ELSE Returned([k \in 1..Len(resp.items) |->
                    [id |-> resp.items[k].id,
                     format |-> IF resp.items[k].format = "" THEN "srt"
                                ELSE resp.items[k].format,
                     serverType |-> "custom",
                     serverInfo |-> i,
                     language |-> language]])

getLocalSubtitles(language) ==
    SelectSeq(localSubs, LAMBDA sub : sub.language = language)

searchOnServer(server, i, language, resp) ==
    CASE server.serverType = "opensubtitles" -> searchOpenSubtitles(server, i, language, resp)
      [] server.serverType = "custom" -> searchCustomAPI(server, i, language, resp)
      [] server.serverType = "local" -> Returned(getLocalSubtitles(language))
      [] OTHER -> Returned(<<>>)

(***************************************************************************)
(* searchSubtitles.  Its frame:                                            *)
(*   pc         idle, await (suspended in searchOnServer(servers[i])),     *)
(*              done                                                       *)
(*   language   the requested language                                     *)
(*   i          the loop index (1-based)                                   *)
(*   allResults the accumulator                                            *)
(*   outcome    none, return (allResults is the value), throw (error)      *)
(*   replies    what each invoked provider's call came to, in the order    *)
(*              of the calls: [server, resp, ok, results], resp being the  *)
(*              endpoint's answer                                          *)
(***************************************************************************)
\* line 28: server.languages.indexOf(language) !== -1
ListsLanguageAlways(server, language) == TRUE
ListsLanguage(server, language) ==
    \E k \in 1..Len(server.languages) : server.languages[k] = language

\* line 18: servers.length === 0
NoServersNever(svrs) == FALSE
NoServersConfigured(svrs) == Len(svrs) = 0

\* line 34: allResults.concat(results)
ConcatFront(allResults, results) == results \o allResults
Concat(allResults, results) == allResults \o results

\* lines 35-37: the catch logs the error and falls through to the next provider.
SearchCatchRethrow(f, out) ==
    [f EXCEPT !.pc = "done", !.outcome = "throw", !.error = out.err]
SearchCatch(f, out) == f

\* lines 24-30: skip the providers that do not list the language.
RECURSIVE NextMatchingAutoLoadOnly(_, _, _)
NextMatchingAutoLoadOnly(svrs, language, from) ==
    IF from > Len(svrs) THEN from
    ELSE IF ListsLanguage(svrs[from], language) /\ svrs[from].autoLoad THEN from
    ELSE NextMatchingAutoLoadOnly(svrs, language, from + 1)

RECURSIVE NextMatching(_, _, _)
NextMatching(svrs, language, from) ==
    IF from > Len(svrs) THEN from
    ELSE IF ListsLanguage(svrs[from], language) THEN from
    ELSE NextMatching(svrs, language, from + 1)

\* Run the loop from index f.i to the next call of searchOnServer, or to the return.
SearchAdvance(f, svrs) ==
    LET n == NextMatching(svrs, f.language, f.i)
    IN  IF n > Len(svrs)
        THEN [f EXCEPT !.pc = "done", !.outcome = "return", !.i = n]
        ELSE [f EXCEPT !.pc = "await", !.i = n]

\* lines 15-33: searchSubtitles up to its first suspension.
SearchBegin(svrs, language) ==
    LET f == [pc |-> "idle", language |-> language, i |-> 1, allResults |-> <<>>,
              outcome |-> "none", error |-> "", replies |-> <<>>]
    IN  IF NoServersConfigured(svrs)
        THEN [f EXCEPT !.pc = "done", !.outcome = "throw",
                       !.error = "No subtitle servers configured"]
        ELSE SearchAdvance(f, svrs)

\* The request the frame's pending call issued, if it issued one.
SearchRequest(f, svrs) ==
    IF f.pc = "await" /\ NeedsFetch(svrs[f.i])
    THEN <<[kind |-> "search", to |-> f.i]>>
    ELSE <<>>

\* lines 32-38: the pending call completes with `out`; on to the next call or the return.
SearchResume(f, svrs, resp, out) ==
    LET g == IF out.ok
             THEN [f EXCEPT !.allResults = Concat(@, out.results)]
             ELSE SearchCatch(f, out)
        h == [g EXCEPT !.replies = Append(@, [server |-> f.i, resp |-> resp,
                                              ok |-> out.ok, results |-> out.results])]
    IN  IF h.pc = "done" THEN h
        ELSE SearchAdvance([h EXCEPT !.i = @ + 1], svrs)

ResponsesFor(server, R) == IF NeedsFetch(server) THEN R ELSE {NoResponse}

\* A caller invokes searchSubtitles(query, language).
SearchStart(p) ==
    /\ srch[p].pc = "idle"
    /\ auto[p].pc = "idle"
    /\ ld.pc = "idle" /\ tc.pc = "idle"
    /\ \E language \in Langs :
          LET f == SearchBegin(servers, language)
          IN  /\ srch' = [srch EXCEPT ![p] = f]
              /\ net' = [net EXCEPT ![p] = @ \o SearchRequest(f, servers)]
    /\ UNCHANGED <<servers, localSubs, subtitles, auto, ld, tc>>
    /\ UNCHANGED <<storeVars, pure, dl>>

\* The pending searchOnServer call of proc p completes.
SearchReply(p, R) ==
    /\ srch[p].pc = "await"
    /\ \E resp \in ResponsesFor(servers[srch[p].i], R) :
          LET f == srch[p]
              out == searchOnServer(servers[f.i], f.i, f.language, resp)
              g == SearchResume(f, servers, resp, out)
          IN  /\ srch' = [srch EXCEPT ![p] = g]
              /\ net' = [net EXCEPT ![p] = @ \o SearchRequest(g, servers)]
    /\ UNCHANGED <<servers, localSubs, subtitles, auto, ld, tc>>
    /\ UNCHANGED <<storeVars, pure, dl>>

(***************************************************************************)
(* The search specification: providers and local subtitles are configured, *)
(* then one searchSubtitles call runs.                                     *)
(***************************************************************************)
InitStorage ==
    /\ servers = <<>>
    /\ localSubs = <<>>
    /\ subtitles = [key \in StoredChannelIds \X Langs |-> Null]

InitFrames ==
    /\ srch = [p \in Procs |-> NoFrame]
    /\ auto = [p \in Procs |-> NoFrame]
    /\ net = [p \in Procs |-> <<>>]
    /\ ld = NoFrame
    /\ tc = NoFrame
    /\ st = NoFrame
    /\ dl = NoFrame

\* The playlists, IP servers and channels: none stored, no id produced yet.
InitChannelStore ==
    /\ playlists = <<>>
    /\ ipServers = <<>>
    /\ iptvChannels = <<>>
    /\ nextId = 1

Init == InitStorage /\ InitChannelStore /\ InitFrames /\ pure = NoFrame

NextSearch ==
    \/ AddSubtitleServer(SearchConfigs)
    \/ AddLocalSubtitles
    \/ \E p \in Solo : SearchStart(p)
    \/ \E p \in Solo : SearchReply(p, Responses)

SpecSearch == Init /\ [][NextSearch]_vars

(***************************************************************************)
(* Claims about searchSubtitles, checked under SpecSearch.                 *)
(***************************************************************************)
SearchDone(p) == srch[p].pc = "done"

\* The providers of the stored list that list the language, by the list itself.
Listers(language) ==
    {i \in 1..Len(servers) : language \in Range(servers[i].languages)}

\* The answers the claim names as failures: no answer, a non-2xx status, a body
\* that is not JSON, an item the mapping cannot read.
FailingAnswer(resp) ==
    \/ resp.kind \in {"reject", "status", "malformed"}
    \/ resp.kind = "items" /\ \E k \in 1..Len(resp.items) : ~resp.items[k].good

RepliesOf(p, i) == SelectSeq(srch[p].replies, LAMBDA r : r.server = i)

\* C1: with at least one provider configured, a provider whose search fails
\* contributes no result and never aborts the aggregate: the call never throws,
\* every provider listing the language is called whatever the earlier ones did,
\* a failed call leaves the accumulator as it was, and the returned list holds
\* every result of every call that did not fail.
Thm_C1_FailureNeverAborts ==
    \A p \in Procs :
        (srch[p].pc # "idle" /\ Len(servers) > 0) =>
            /\ srch[p].outcome # "throw"
            /\ \A r \in 1..Len(srch[p].replies) :
                  LET reply == srch[p].replies[r]
                  IN  /\ FailingAnswer(reply.resp) => ~reply.ok
                      /\ ~reply.ok => reply.results = <<>>
                      /\ reply.ok =>
                            \A k \in 1..Len(reply.results) :
                                reply.results[k] \in Range(srch[p].allResults)
            /\ SearchDone(p) =>
                  /\ srch[p].outcome = "return"
                  /\ \A i \in Listers(srch[p].language) : Len(RepliesOf(p, i)) > 0
                  /\ Len(srch[p].allResults) =
                        Len(FlatSeq([r \in 1..Len(srch[p].replies) |->
                                        IF srch[p].replies[r].ok
                                        THEN srch[p].replies[r].results ELSE <<>>]))

\* C1 witness: a finished search in which one provider failed and a later one
\* returned results, which are in the returned list.
Wit_C1_FailedThenHealthy ==
    \E p \in Procs :
        /\ SearchDone(p)
        /\ srch[p].outcome = "return"
        /\ Len(srch[p].replies) = 2
        /\ ~srch[p].replies[1].ok
        /\ srch[p].replies[2].ok
        /\ Len(srch[p].replies[2].results) > 0
        /\ srch[p].allResults = srch[p].replies[2].results

\* C2: a provider is called if and only if its languages list holds the
\* requested language; the others are never called, so never fail.  With
\* P1 (languages = <<en>>) and P2 (languages = <<ar>>), a search for ar calls
\* P2 alone, and returns the empty list when P2 throws.
Thm_C2_CalledIffListsLanguage ==
    \A p \in Procs :
        srch[p].pc # "idle" =>
            /\ {srch[p].replies[r].server : r \in 1..Len(srch[p].replies)}
                  \subseteq Listers(srch[p].language)
            /\ srch[p].pc = "await" => srch[p].i \in Listers(srch[p].language)
            /\ (SearchDone(p) /\ srch[p].outcome = "return") =>
                  {srch[p].replies[r].server : r \in 1..Len(srch[p].replies)}
                      = Listers(srch[p].language)
            /\ ( /\ SearchDone(p)
                 /\ Len(servers) = 2
                 /\ servers[1].languages = <<"en">>
                 /\ servers[2].languages = <<"ar">>
                 /\ srch[p].language = "ar" ) =>
                  /\ Len(srch[p].replies) = 1
                  /\ srch[p].replies[1].server = 2
                  /\ ~srch[p].replies[1].ok =>
                        srch[p].outcome = "return" /\ srch[p].allResults = <<>>

\* C2 witness: P1 lists en, P2 lists ar, the search for ar is over, P2 threw.
Wit_C2_OnlyP2Called ==
    \E p \in Procs :
        /\ SearchDone(p)
        /\ Len(servers) = 2
        /\ servers[1].languages = <<"en">>
        /\ servers[2].languages = <<"ar">>
        /\ srch[p].language = "ar"
        /\ Len(srch[p].replies) = 1
        /\ ~srch[p].replies[1].ok
        /\ srch[p].allResults = <<>>

\* C3: the call throws exactly when no provider is configured; with providers
\* configured and none listing the language it returns the empty list, having
\* called no provider and issued no request.
Thm_C3_ThrowsIffNoServers ==
    \A p \in Procs :
        SearchDone(p) =>
            /\ srch[p].outcome = "throw" <=> Len(servers) = 0
            /\ srch[p].outcome = "throw" =>
                  srch[p].error = "No subtitle servers configured"
            /\ (Len(servers) > 0 /\ Listers(srch[p].language) = {}) =>
                  /\ srch[p].outcome = "return"
                  /\ srch[p].allResults = <<>>
                  /\ srch[p].replies = <<>>
                  /\ net[p] = <<>>

\* C3 witness: providers are configured, none lists the language, the search is over.
Wit_C3_NoneListsLanguage ==
    \E p \in Procs :
        /\ SearchDone(p)
        /\ Len(servers) > 0
        /\ Listers(srch[p].language) = {}
        /\ srch[p].outcome = "return"

\* What provider i contributed: the results of its call if it was called and
\* did not fail.
Contribution(p, i) ==
    LET rs == RepliesOf(p, i)
    IN  IF Len(rs) > 0 /\ rs[1].ok THEN rs[1].results ELSE <<>>

\* C4: the returned list is the concatenation, in the order the providers are
\* configured, of what each called provider returned, each provider's own order
\* kept, nothing re-ranked and nothing removed.
Thm_C4_ConcatInProviderOrder ==
    \A p \in Procs :
        (SearchDone(p) /\ srch[p].outcome = "return") =>
            srch[p].allResults =
                FlatSeq([i \in 1..Len(servers) |-> Contribution(p, i)])

\* C4 witness: two providers each returned several results, and the returned
\* list holds the same result twice.
Wit_C4_TwoProvidersDuplicates ==
    \E p \in Procs :
        /\ SearchDone(p)
        /\ Len(srch[p].replies) = 2
        /\ Len(srch[p].replies[1].results) > 1
        /\ Len(srch[p].replies[2].results) > 1
        /\ \E a, b \in 1..Len(srch[p].allResults) :
              a < b /\ srch[p].allResults[a] = srch[p].allResults[b]

(***************************************************************************)
(* M3U text, line by line.  A body is the sequence of its lines after      *)
(* split and trim, each line told by what the parsers test of it:          *)
(*   extinf   starts with #EXTINF: ; name is the text after the last       *)
(*            comma, tvgName, logo and group the attributes ("" if absent) *)
(*   extgrp   #EXTGRP:<name>                                               *)
(*   url      a non-empty line not starting with #                         *)
(*   comment  another line starting with # (a directive the parsers skip)  *)
(*   blank    a line that is empty once trimmed                            *)
(***************************************************************************)
ExtInf(name, group) ==
    [kind |-> "extinf", name |-> name, tvgName |-> "", logo |-> "", group |-> group,
     text |-> ""]
ExtGrp(name) ==
    [kind |-> "extgrp", name |-> "", tvgName |-> "", logo |-> "", group |-> "",
     text |-> name]
UrlLine(u) ==
    [kind |-> "url", name |-> "", tvgName |-> "", logo |-> "", group |-> "", text |-> u]

CommentLine ==
    [kind |-> "comment", name |-> "", tvgName |-> "", logo |-> "", group |-> "",
     text |-> "#EXT-X-NOTE"]
BlankLine ==
    [kind |-> "blank", name |-> "", tvgName |-> "", logo |-> "", group |-> "", text |-> ""]

LoaderLines == {ExtInf("BBC", ""), ExtGrp("News"), UrlLine("http://stream/bbc.ts")}

RECURSIVE SeqsUpTo(_, _)
SeqsUpTo(S, n) ==
    IF n = 0 THEN {<<>>}
    ELSE LET shorter == SeqsUpTo(S, n - 1)
         IN  shorter \cup {Append(q, x) : q \in shorter, x \in S}

\* M3UParser.parseExtInf: the pending record an #EXTINF line opens.
parseExtInf(line) ==
    [name |-> IF line.name = "" THEN line.tvgName ELSE line.name,
     logo |-> line.logo,
     category |-> IF line.group = "" THEN "Uncategorized" ELSE line.group,
     url |-> "",
     tvgId |-> "",
     tvgName |-> line.tvgName]

\* M3UParser.parse: the loop over the lines; cur is the pending record or Null.
RECURSIVE parseFromCommentResets(_, _, _, _)
parseFromCommentResets(lines, k, cur, channels) ==
    IF k > Len(lines) THEN channels
    ELSE LET line == lines[k]
         IN  CASE line.kind = "extinf" ->
                    parseFromCommentResets(lines, k + 1, parseExtInf(line), channels)
               [] line.kind = "url" /\ cur # Null ->
                    parseFromCommentResets(lines, k + 1, Null,
                                           Append(channels, [cur EXCEPT !.url = line.text]))
               [] OTHER -> parseFromCommentResets(lines, k + 1, Null, channels)

RECURSIVE parseFromKeepsPending(_, _, _, _)
parseFromKeepsPending(lines, k, cur, channels) ==
    IF k > Len(lines) THEN channels
    ELSE LET line == lines[k]
         IN  CASE line.kind = "extinf" ->
                    parseFromKeepsPending(lines, k + 1, parseExtInf(line), channels)
               [] line.kind = "url" /\ cur # Null ->
                    parseFromKeepsPending(lines, k + 1, cur,
                                          Append(channels, [cur EXCEPT !.url = line.text]))
               [] OTHER -> parseFromKeepsPending(lines, k + 1, cur, channels)

RECURSIVE parseFromGroupIgnored(_, _, _, _)
parseFromGroupIgnored(lines, k, cur, channels) ==
    IF k > Len(lines) THEN channels
    ELSE LET line == lines[k]
         IN  CASE line.kind = "extinf" ->
                    parseFromGroupIgnored(lines, k + 1, parseExtInf(line), channels)
               [] line.kind = "url" /\ cur # Null ->
                    parseFromGroupIgnored(lines, k + 1, Null,
                                          Append(channels, [cur EXCEPT !.url = line.text]))
               [] OTHER -> parseFromGroupIgnored(lines, k + 1, cur, channels)

RECURSIVE parseFrom(_, _, _, _)
parseFrom(lines, k, cur, channels) ==
    IF k > Len(lines) THEN channels
    ELSE LET line == lines[k]
         IN  CASE line.kind = "extinf" ->
                    parseFrom(lines, k + 1, parseExtInf(line), channels)
               [] line.kind = "extgrp" ->
                    parseFrom(lines, k + 1,
                              IF cur # Null THEN [cur EXCEPT !.category = line.text]
                              ELSE cur,
                              channels)
               [] line.kind = "url" /\ cur # Null ->
                    parseFrom(lines, k + 1, Null,
                              Append(channels, [cur EXCEPT !.url = line.text]))
               [] OTHER -> parseFrom(lines, k + 1, cur, channels)

parse(lines) == parseFrom(lines, 1, Null, <<>>)

\* IPServerLoader.parseSimpleM3U: the loader's own parser.
RECURSIVE parseSimpleFrom(_, _, _, _)
parseSimpleFrom(lines, k, cur, channels) ==
    IF k > Len(lines) THEN channels
    ELSE LET line == lines[k]
         IN  CASE line.kind = "extinf" ->
                    parseSimpleFrom(lines, k + 1,
                        [name |-> line.name,
                         logo |-> line.logo,
                         category |-> IF line.group = "" THEN "Uncategorized"
                                      ELSE line.group,
                         url |-> ""],
                        channels)
               [] line.kind = "url" /\ cur # Null ->
                    parseSimpleFrom(lines, k + 1, Null,
                                    Append(channels, [cur EXCEPT !.url = line.text]))
               [] OTHER -> parseSimpleFrom(lines, k + 1, cur, channels)

parseSimpleM3U(lines) == parseSimpleFrom(lines, 1, Null, <<>>)

(***************************************************************************)
(* IPServerLoader.  A descriptor's apiPath is a sequence of tokens, the    *)
(* markers the loader looks for being tokens of their own; given tells     *)
(* whether the descriptor has an apiPath at all.  includes() is membership *)
(* of the token.                                                           *)
(***************************************************************************)
NoApiPath == [given |-> FALSE, apiPath |-> <<>>]

PathTokens == {"player_api", "get.php", ".m3u", "streams"}

XtreamDefaultPath == <<"/", "player_api", ".php">>     \* '/player_api.php'
M3UDefaultPath == <<"/", "get.php">>                   \* '/get.php'

Descriptors == [given : {TRUE}, apiPath : SeqsUpTo(PathTokens, MaxPathLen)] \cup {NoApiPath}

Includes(path, token) == \E k \in 1..Len(path) : path[k] = token

\* line 17: serverInfo.apiPath || '/player_api.php'
ApiPathOf(serverInfo) ==
    IF ~serverInfo.given \/ serverInfo.apiPath = <<>>
    THEN XtreamDefaultPath
    ELSE serverInfo.apiPath

\* line 20
HasXtreamHintNever(apiPath) == FALSE
HasXtreamHint(apiPath) == Includes(apiPath, "player_api")

\* line 25
HasM3UHint(apiPath) == Includes(apiPath, "get.php") \/ Includes(apiPath, ".m3u")

\* What the server answers to a list-live-streams request:
\*   reject, status, malformed as above; notarray: JSON that is no array;
\*   array: a JSON array of streams, a stream that is not good being null.
Streams(n, bad) ==
    [k \in 1..n |-> [stream_id |-> k, name |-> IF k = 1 THEN "" ELSE "ch",
                     good |-> ~(bad /\ k = n)]]

XtreamAnswers ==
    {[kind |-> k, data |-> <<>>] : k \in {"reject", "status", "malformed", "notarray"}}
    \cup {[kind |-> "array", data |-> Streams(n, FALSE)] : n \in 0..MaxStreams}
    \cup {[kind |-> "array", data |-> Streams(n, TRUE)] : n \in 1..MaxStreams}

\* What the server answers to a type=m3u_plus request.
M3UAnswers ==
    {[kind |-> k, data |-> <<>>] : k \in {"reject", "status"}}
    \cup {[kind |-> "text", data |-> body] : body \in SeqsUpTo(LoaderLines, MaxLines)}

\* A probe's result: [probe, ok, channels, err].
ProbeReturned(probe, channels) ==
    [probe |-> probe, ok |-> TRUE, channels |-> channels, err |-> ""]
ProbeThrew(probe, err) ==
    [probe |-> probe, ok |-> FALSE, channels |-> <<>>, err |-> err]

\* lines 40-73: the probe fails on a rejected request, a non-2xx status, a
\* body that is not JSON or no array, a stream that cannot be read; an empty
\* array maps to no channel.
loadXtreamChannelsEmptyFails(resp) ==
    IF resp.kind = "array" /\ Len(resp.data) > 0 /\ \A k \in 1..Len(resp.data) : resp.data[k].good
    THEN ProbeReturned("xtream", <<>>)
    ELSE ProbeThrew("xtream", "Invalid response from server")
loadXtreamChannels(resp) ==
    IF resp.kind = "reject" THEN ProbeThrew("xtream", "fetch rejected")
    ELSE IF resp.kind = "status" THEN ProbeThrew("xtream", "Server returned error")
    ELSE IF resp.kind = "malformed" THEN ProbeThrew("xtream", "json rejected")
    ELSE IF resp.kind = "notarray" THEN ProbeThrew("xtream", "Invalid response from server")
    ELSE IF \E k \in 1..Len(resp.data) : ~resp.data[k].good
    THEN ProbeThrew("xtream", "TypeError in map")
    ELSE ProbeReturned("xtream",
            [k \in 1..Len(resp.data) |->
                [name |-> IF resp.data[k].name = "" THEN "Unknown Channel"
                          ELSE resp.data[k].name,
                 url |-> <<"live", resp.data[k].stream_id>>,
                 logo |-> "",
                 category |-> "Uncategorized",
                 epg_channel_id |-> "",
                 stream_id |-> resp.data[k].stream_id]])

\* lines 78-99; hasParser is whether M3UParser is loaded.
loadM3UFromServer(resp, hasParser) ==
    IF resp.kind = "reject" THEN ProbeThrew("m3u", "fetch rejected")
    ELSE IF resp.kind = "status" THEN ProbeThrew("m3u", "Server returned error")
    ELSE ProbeReturned("m3u", IF hasParser THEN parse(resp.data)
                              ELSE parseSimpleM3U(resp.data))

XtreamRequest(path) == [probe |-> "xtream", path |-> path, query |-> "action=get_live_streams"]
M3URequest(path) == [probe |-> "m3u", path |-> path, query |-> "type=m3u_plus"]

\* lines 32-34: in the default branch a failed Xtream probe is caught and the
\* M3U probe is issued against '/get.php'.
LoadCatchRethrow(f, out) ==
    [f EXCEPT !.pc = "done", !.outcome = "throw", !.error = out]
LoadCatch(f, out) ==
    [f EXCEPT !.pc = "m3u", !.requests = Append(@, M3URequest(M3UDefaultPath))]

\* line 33: the error of the M3U probe is the one that leaves the catch block.
FallbackErrorFirst(xerr, merr) == xerr
FallbackError(xerr, merr) == merr

(***************************************************************************)
(* loadChannels.  Its frame:                                               *)
(*   pc        idle, xtream / m3u (suspended in that probe), done          *)
(*   desc      the descriptor                                              *)
(*   server    how the server answers each kind of request                 *)
(*   hasParser whether M3UParser is loaded                                 *)
(*   branch    the branch taken: xtream (line 21), m3u (line 26),          *)
(*             default (lines 30-34)                                       *)
(*   requests  the requests issued, in order                               *)
(*   probes    the results of the probes that completed, in order          *)
(*   outcome   none, return (channels is the value), throw (error)         *)
(***************************************************************************)
LoadStart ==
    /\ AllIdle
    /\ \E desc \in Descriptors, xa \in XtreamAnswers, ma \in M3UAnswers, hp \in BOOLEAN :
          LET apiPath == ApiPathOf(desc)
              f == [pc |-> "idle", desc |-> desc, server |-> [xtream |-> xa, m3u |-> ma],
                    hasParser |-> hp, branch |-> "", requests |-> <<>>, probes |-> <<>>,
                    outcome |-> "none", channels |-> <<>>, error |-> Null]
          IN  ld' = IF HasXtreamHint(apiPath)
                    THEN [f EXCEPT !.pc = "xtream", !.branch = "xtream",
                                   !.requests = <<XtreamRequest(apiPath)>>]
                    ELSE IF HasM3UHint(apiPath)
                    THEN [f EXCEPT !.pc = "m3u", !.branch = "m3u",
                                   !.requests = <<M3URequest(apiPath)>>]
                    ELSE [f EXCEPT !.pc = "xtream", !.branch = "default",
                                   !.requests = <<XtreamRequest(XtreamDefaultPath)>>]
    /\ UNCHANGED <<servers, localSubs, subtitles, srch, auto, net, tc>>
    /\ UNCHANGED <<storeVars, pure, dl>>

\* The Xtream probe completes.
XtreamReply ==
    /\ ld.pc = "xtream"
    /\ LET out == loadXtreamChannels(ld.server.xtream)
           f == [ld EXCEPT !.probes = Append(@, out)]
       IN  ld' = IF out.ok
                 THEN [f EXCEPT !.pc = "done", !.outcome = "return",
                                !.channels = out.channels]
                 ELSE IF f.branch = "default"
                 THEN LoadCatch(f, out)
                 ELSE [f EXCEPT !.pc = "done", !.outcome = "throw", !.error = out]
    /\ UNCHANGED <<servers, localSubs, subtitles, srch, auto, net, tc>>
    /\ UNCHANGED <<storeVars, pure, dl>>

\* The M3U probe completes.
M3UReply ==
    /\ ld.pc = "m3u"
    /\ LET out == loadM3UFromServer(ld.server.m3u, ld.hasParser)
           f == [ld EXCEPT !.probes = Append(@, out)]
       IN  ld' = IF out.ok
                 THEN [f EXCEPT !.pc = "done", !.outcome = "return",
                                !.channels = out.channels]
                 ELSE [f EXCEPT !.pc = "done", !.outcome = "throw",
                                !.error = IF f.branch = "default"
                                          THEN FallbackError(f.probes[1], out)
                                          ELSE out]
    /\ UNCHANGED <<servers, localSubs, subtitles, srch, auto, net, tc>>
    /\ UNCHANGED <<storeVars, pure, dl>>

(***************************************************************************)
(* testConnection.  The answer to its request is a rejected request or a   *)
(* status; its frame holds the descriptor, the answer and the outcome.     *)
(***************************************************************************)
TestAnswers == {"reject", "2xx", "non2xx"}

\* lines 154-159
testConnectionRethrow(answer) ==
    IF answer = "reject" THEN [outcome |-> "throw", value |-> FALSE]
    ELSE [outcome |-> "return", value |-> (answer = "2xx")]
testConnectionResult(answer) ==
    IF answer = "reject" THEN [outcome |-> "return", value |-> FALSE]
    ELSE [outcome |-> "return", value |-> (answer = "2xx")]

TestStart ==
    /\ AllIdle
    /\ \E desc \in Descriptors, answer \in TestAnswers :
          tc' = [pc |-> "await", desc |-> desc, answer |-> answer,
                 request |-> ApiPathOf(desc), outcome |-> "none", value |-> FALSE]
    /\ UNCHANGED <<servers, localSubs, subtitles, srch, auto, net, ld>>
    /\ UNCHANGED <<storeVars, pure, dl>>

TestReply ==
    /\ tc.pc = "await"
    /\ LET r == testConnectionResult(tc.answer)
       IN  tc' = [tc EXCEPT !.pc = "done", !.outcome = r.outcome, !.value = r.value]
    /\ UNCHANGED <<servers, localSubs, subtitles, srch, auto, net, ld>>
    /\ UNCHANGED <<storeVars, pure, dl>>

NextLoad ==
    \/ LoadStart
    \/ XtreamReply
    \/ M3UReply
    \/ TestStart
    \/ TestReply

SpecLoad == Init /\ [][NextLoad]_vars

(***************************************************************************)
(* Claims about loadChannels and testConnection, checked under SpecLoad.   *)
(***************************************************************************)
LoadDone == ld.pc = "done"

\* The markers of the apiPath the descriptor supplies (none when it supplies none).
XtreamMarked(desc) == desc.given /\ "player_api" \in Range(desc.apiPath)
M3UMarked(desc) ==
    desc.given /\ ("get.php" \in Range(desc.apiPath) \/ ".m3u" \in Range(desc.apiPath))

\* The descriptor supplies an apiPath, which holds no marker.
Unhinted(desc) ==
    desc.given /\ desc.apiPath # <<>> /\ ~XtreamMarked(desc) /\ ~M3UMarked(desc)

ProbesRequested == {ld.requests[k].probe : k \in 1..Len(ld.requests)}

\* The single probe failed and its error is what the caller gets.
PropagatesUnchanged ==
    (LoadDone /\ ~ld.probes[1].ok) =>
        /\ Len(ld.probes) = 1
        /\ ld.outcome = "throw"
        /\ ld.error = ld.probes[1]

\* C5 as stated: with an Xtream-style marker no M3U request is issued, with an
\* M3U-style marker no Xtream request is issued, and the failure of the hinted
\* probe reaches the caller unchanged.
Orig_C5_HintedStrategyOnly ==
    ld.pc # "idle" =>
        /\ XtreamMarked(ld.desc) => ProbesRequested = {"xtream"} /\ PropagatesUnchanged
        /\ M3UMarked(ld.desc) => ProbesRequested = {"m3u"} /\ PropagatesUnchanged

\* C5 as amended: the Xtream-style marker is looked for first, so the M3U-style
\* marker decides only when the apiPath holds no Xtream-style marker.
Thm_C5_HintedStrategyOnly ==
    ld.pc # "idle" =>
        /\ XtreamMarked(ld.desc) => ProbesRequested = {"xtream"} /\ PropagatesUnchanged
        /\ (M3UMarked(ld.desc) /\ ~XtreamMarked(ld.desc)) =>
              ProbesRequested = {"m3u"} /\ PropagatesUnchanged

\* C5 witness: an apiPath with an M3U-style marker alone, whose probe failed;
\* the load is over and threw that probe's error after a single request.
Wit_C5_M3UHintFails ==
    /\ LoadDone
    /\ M3UMarked(ld.desc) /\ ~XtreamMarked(ld.desc)
    /\ Len(ld.requests) = 1
    /\ ld.outcome = "throw"
    /\ ld.error.probe = "m3u"

\* The server's Xtream answer is one XtreamProbe fails on; its M3U answer is
\* one M3UProbe succeeds on.
XtreamWouldFail(server) ==
    \/ server.xtream.kind \in {"reject", "status", "malformed", "notarray"}
    \/ \E k \in 1..Len(server.xtream.data) : ~server.xtream.data[k].good
M3UWouldSucceed(server) == server.m3u.kind = "text"

ReturnsM3UChannels ==
    /\ ld.outcome = "return"
    /\ Len(ld.probes) = 2
    /\ ld.probes[2].probe = "m3u"
    /\ ld.probes[2].ok
    /\ ld.channels = ld.probes[2].channels
    /\ ld.channels = IF ld.hasParser THEN parse(ld.server.m3u.data)
                     ELSE parseSimpleM3U(ld.server.m3u.data)

\* C6 as stated: for a descriptor whose apiPath holds no marker, one without
\* apiPath included, a failing XtreamProbe and a succeeding M3UProbe make
\* loadChannels return M3UProbe's channels.
Orig_C6_FallbackToM3U ==
    ( /\ LoadDone
      /\ ~XtreamMarked(ld.desc) /\ ~M3UMarked(ld.desc)
      /\ XtreamWouldFail(ld.server)
      /\ M3UWouldSucceed(ld.server) ) => ReturnsM3UChannels

\* C6 as amended: the same for a descriptor that supplies a non-empty apiPath
\* holding no marker; a descriptor without apiPath gets '/player_api.php'.
Thm_C6_FallbackToM3U ==
    ( /\ LoadDone
      /\ Unhinted(ld.desc)
      /\ XtreamWouldFail(ld.server)
      /\ M3UWouldSucceed(ld.server) ) => ReturnsM3UChannels

\* C6 witness: no marker, the Xtream body was JSON but no array, the M3U body
\* held a channel, and that channel is what the load returned.
Wit_C6_NotArrayThenM3U ==
    /\ LoadDone
    /\ Unhinted(ld.desc)
    /\ ld.server.xtream.kind = "notarray"
    /\ ld.outcome = "return"
    /\ Len(ld.channels) = 1
    /\ ld.channels[1].url = "http://stream/bbc.ts"

\* C7: in the default branch an error reaches the caller only after both
\* probes were issued and failed, and it is the M3U probe's error; in every
\* branch a load that throws has tried each strategy that applies.
Thm_C7_ErrorAfterBothProbes ==
    (LoadDone /\ ld.outcome = "throw") =>
        /\ Unhinted(ld.desc) =>
              /\ Len(ld.requests) = 2
              /\ ld.requests[1].probe = "xtream"
              /\ ld.requests[2].probe = "m3u"
              /\ Len(ld.probes) = 2
              /\ ~ld.probes[1].ok
              /\ ~ld.probes[2].ok
              /\ ld.error = ld.probes[2]
              /\ ld.error.probe = "m3u"
        /\ Len(ld.probes) = Len(ld.requests)
        /\ \A k \in 1..Len(ld.probes) : ~ld.probes[k].ok
        /\ ~Unhinted(ld.desc) => Len(ld.probes) = 1 /\ ld.error = ld.probes[1]

\* C7 witness: no marker, both probes failed in different ways, the load threw.
Wit_C7_BothFailed ==
    /\ LoadDone
    /\ Unhinted(ld.desc)
    /\ ld.outcome = "throw"
    /\ ld.server.xtream.kind = "notarray"
    /\ ld.server.m3u.kind = "status"
    /\ ld.error.err = "Server returned error"

Clocks == {"00:00:01", "00:00:02"}
Millis == {"000"}

CommaStamp == <<"00:00:01", ",", "000">>
DotStamp == <<"00:00:01", ".", "000">>

Texts == {CommaStamp \o <<"Hi">>, DotStamp \o <<"Hi">>}

VttHeader == <<"WEBVTT", "\n", "\n">>

\* A match of /(\d{2}:\d{2}:\d{2}),(\d{3})/ at the head of the text.
StampAtHead(text, separator) ==
    /\ Len(text) >= 3
    /\ text[1] \in Clocks
    /\ text[2] = separator
    /\ text[3] \in Millis

\* line 213: replace with the g flag: every match, left to right, becomes
\* '$1.$2'; the text between the matches is copied.
RECURSIVE ReplaceEveryComma(_)
ReplaceEveryComma(text) ==
    IF Len(text) = 0 THEN text
    ELSE <<IF Head(text) = "," THEN "." ELSE Head(text)>> \o ReplaceEveryComma(Tail(text))

RECURSIVE ReplaceStamps(_)
ReplaceStamps(text) ==
    IF Len(text) = 0 THEN text
    ELSE IF StampAtHead(text, ",")
    THEN <<text[1], ".", text[3]>> \o ReplaceStamps(SubSeq(text, 4, Len(text)))
    ELSE <<Head(text)>> \o ReplaceStamps(Tail(text))

\* lines 208-216: the header, then the text with its timestamps rewritten.
convertSRTtoVTT(srtContent) == VttHeader \o ReplaceStamps(srtContent)

\* What the resolve endpoint (POST /download) and a content URL answer.
ResolveAnswers == {"reject", "status", "malformed", "nolink", "link"}
FetchAnswers ==
    {[kind |-> k, text |-> <<>>] : k \in {"reject", "status"}}
    \cup {[kind |-> "text", text |-> t] : t \in Texts}

\* IPTVStorage.saveChannelSubtitle: store is the parsed content of the key; the
\* entry of (channelId, language) is set and the whole is written back.
\* writeOk is whether localStorage.setItem accepts the write; when it throws,
\* the catch returns false and the store is as before.
saveChannelSubtitleFresh(store, channelId, language, subtitle, writeOk) ==
    [ok |-> writeOk,
     store |-> IF writeOk
               THEN [key \in DOMAIN store |->
                        IF key = <<channelId, language>> THEN subtitle
                        ELSE IF key[1] = channelId THEN Null
                        ELSE store[key]]
               ELSE store]
saveChannelSubtitle(store, channelId, language, subtitle, writeOk) ==
    [ok |-> writeOk,
     store |-> IF writeOk
               THEN [store EXCEPT ![<<channelId, language>>] = subtitle]
               ELSE store]

\* IPTVStorage.getChannelSubtitle: the entry, or null when the channel or the
\* language has none.
getChannelSubtitle(store, channelId, language) ==
    IF store[<<channelId, language>>] # Null
    THEN store[<<channelId, language>>]
    ELSE Null

\* getSavedSubtitle (lines 237-239) hands over to getChannelSubtitle.
getSavedSubtitleMiss(channelId, language) == Null
getSavedSubtitle(channelId, language) ==
    getChannelSubtitle(subtitles, channelId, language)

\* lines 221-228: the record saveSubtitle builds (savedAt is left out).
SubtitleRecord(channelId, language, content, format) ==
    [channelId |-> channelId, language |-> language, content |-> content,
     format |-> format]

\* A subtitle saved before the call modelled, by an earlier saveChannelSubtitle.
EarlierSubtitle(channelId, language) ==
    SubtitleRecord(channelId, language, <<"WEBVTT", "", "old">>, "vtt")

SaveEarlier ==
    /\ AllIdle
    /\ \E c \in ChannelIds, l \in Langs :
          /\ subtitles[<<c, l>>] = Null
          /\ subtitles' = saveChannelSubtitle(subtitles, c, l, EarlierSubtitle(c, l),
                                               TRUE).store
    /\ UNCHANGED <<servers, localSubs, srch, auto, net, ld, tc>>
    /\ UNCHANGED <<storeVars, pure, dl>>

\* The providers an auto-load is run against.
AutoConfigs ==
    [serverType : {"opensubtitles"}, apiKey : {TRUE},
     languages : {<<"en">>, <<"ar", "en">>}, autoLoad : BOOLEAN]
    \cup [serverType : {"custom"}, apiKey : {FALSE},
          languages : {<<"en">>}, autoLoad : BOOLEAN]

\* The answers to the searches an auto-load runs.
AutoResponses ==
    {Response("reject", <<>>), Response("items", <<>>)}
    \cup {Response("items", RawItems(MaxResults, f, FALSE)) : f \in Formats}

(***************************************************************************)
(* autoLoadSubtitles.  Its frame:                                          *)
(*   pc        idle, searching (suspended in searchSubtitles), resolving   *)
(*             (in the POST of downloadFromOpenSubtitles), fetching (in    *)
(*             downloadFromURL), done                                      *)
(*   channelId the channel                                                 *)
(*   asv       autoLoadServers, as indexes into the stored list            *)
(*   i, j      the loop indexes (1-based); lang = asv[i].languages[j]      *)
(*   results   what searchSubtitles returned for the pair (emptied when    *)
(*             the loop leaves the pair: it is assigned before it is read) *)
(*   events    what the call did, in order: cache (a saved subtitle was    *)
(*             found), search (searchSubtitles was called), save           *)
(*   downloads the downloadSubtitle calls made for the current pair        *)
(*   fetched   the text the download of the current pair produced          *)
(*   nreq      the number of requests issued for the pairs already left;   *)
(*             net[p] holds the requests of the current pair               *)
(*   outcome   none, return (value is the value: a subtitle or Null)       *)
(*   before    the saved subtitles when the call began                     *)
(*   replaced  what the store held under (channelId, lang) at the moment   *)
(*             line 279 saved                                              *)
(***************************************************************************)
Event(op, language) == [op |-> op, lang |-> language]

\* One step of the call: the two frames after it, the requests it issued, and
\* whether it left the pair it was at.
Step(f, s, req, left) == [auto |-> f, srch |-> s, req |-> req, left |-> left]

\* lines 263, 279: return ends the call.
AutoReturnFallThrough(f, value) == [f EXCEPT !.value = value]
AutoReturn(f, value) ==
    [f EXCEPT !.pc = "done", !.outcome = "return", !.value = value]

\* lines 253-267: run the loops from the pair (i, j) to the next suspension or
\* to the return.  s is the call's searchSubtitles frame.
RECURSIVE AutoLoopFrom(_, _, _, _)
AutoLoopFrom(f, s, i, j) ==
    IF i > Len(f.asv)
    THEN Step(AutoReturn([f EXCEPT !.i = i, !.j = j, !.lang = "", !.results = <<>>,
                                   !.downloads = 0, !.fetched = <<>>],
                         Null),
              s, <<>>, TRUE)
    ELSE IF j > Len(servers[f.asv[i]].languages)
    THEN AutoLoopFrom(f, s, i + 1, 1)
    ELSE LET lang == servers[f.asv[i]].languages[j]
             saved == getSavedSubtitle(f.channelId, lang)
             g == [f EXCEPT !.i = i, !.j = j, !.lang = lang, !.results = <<>>,
                            !.downloads = 0, !.fetched = <<>>]
         IN  IF saved # Null
             THEN LET h == AutoReturn([g EXCEPT !.events = Append(@, Event("cache", lang))],
                                      saved)
                  IN  IF h.pc = "done" THEN Step(h, s, <<>>, TRUE)
                      ELSE AutoLoopFrom(h, s, i, j + 1)
             ELSE LET t == SearchBegin(servers, lang)
                  IN  Step([g EXCEPT !.pc = "searching",
                                     !.events = Append(@, Event("search", lang))],
                           t, SearchRequest(t, servers), TRUE)

\* lines 281-283: the catch logs the error; the inner loop goes on.
AutoCatchRethrow(f, s) ==
    Step([f EXCEPT !.pc = "done", !.outcome = "throw"], s, <<>>, FALSE)
AutoCatchRetry(f, s) == AutoLoopFrom(f, s, f.i, f.j)
AutoCatch(f, s) == AutoLoopFrom(f, s, f.i, f.j + 1)

\* The frames and the request log of proc p after the step r.
Commit(p, r) ==
    /\ auto' = [auto EXCEPT ![p] = IF r.left
                                   THEN [r.auto EXCEPT !.nreq = @ + Len(net[p])]
                                   ELSE r.auto]
    /\ srch' = [srch EXCEPT ![p] = r.srch]
    /\ net' = [net EXCEPT ![p] = IF r.left THEN r.req ELSE @ \o r.req]

\* line 246: the filter of the providers.
IsAutoLoadAlways(server) == TRUE
IsAutoLoad(server) == server.autoLoad

\* lines 244-250 and the first pass of the loops.
AutoStart(p) ==
    /\ auto[p].pc = "idle"
    /\ srch[p].pc = "idle"
    /\ ld.pc = "idle" /\ tc.pc = "idle"
    /\ \E channelId \in ChannelIds :
          LET asv == SelectSeq([k \in 1..Len(servers) |-> k],
                               LAMBDA k : IsAutoLoad(servers[k]))
              f == [pc |-> "idle", channelId |-> channelId, asv |-> asv, i |-> 1, j |-> 1,
                    lang |-> "", results |-> <<>>, events |-> <<>>, downloads |-> 0,
                    fetched |-> <<>>,
                    nreq |-> 0, outcome |-> "none", value |-> Null, before |-> subtitles,
                    replaced |-> Null]
          IN  Commit(p, IF Len(asv) = 0
                        THEN Step(AutoReturn(f, Null), srch[p], <<>>, TRUE)
                        ELSE AutoLoopFrom(f, srch[p], 1, 1))
    /\ UNCHANGED <<servers, localSubs, subtitles, ld, tc>>
    /\ UNCHANGED <<storeVars, pure, dl>>

\* lines 272 and 275: the candidate downloaded is results[0].
LastCandidate(results) == results[Len(results)]
FirstCandidate(results) == results[1]

\* lines 149-157, up to the first request of the download of results[0].
DownloadBegin(f, s) ==
    LET cand == FirstCandidate(f.results)
        g == [f EXCEPT !.downloads = @ + 1]
    IN  IF cand.serverType = "opensubtitles"
        THEN Step([g EXCEPT !.pc = "resolving"], s,
                  <<[kind |-> "resolve", to |-> cand.serverInfo, id |-> cand.id]>>, FALSE)
        ELSE IF cand.serverType \in {"custom", "local"}
        THEN Step([g EXCEPT !.pc = "fetching"], s,
                  <<[kind |-> "fetch", to |-> cand.serverInfo, id |-> cand.id]>>, FALSE)
        ELSE AutoCatch(g, s)

\* lines 267-271: searchSubtitles is over (its frame is dropped); download the
\* first result, or go on.
AutoAfterSearch(p) ==
    /\ auto[p].pc = "searching"
    /\ srch[p].pc = "done"
    /\ LET f == [auto[p] EXCEPT !.results = srch[p].allResults]
       IN  Commit(p, IF srch[p].outcome = "throw" THEN AutoCatch(auto[p], NoFrame)
                     ELSE IF Len(f.results) > 0 THEN DownloadBegin(f, NoFrame)
                     ELSE AutoLoopFrom(f, NoFrame, f.i, f.j + 1))
    /\ UNCHANGED <<servers, localSubs, subtitles, ld, tc>>
    /\ UNCHANGED <<storeVars, pure, dl>>

\* lines 166-188: the resolve POST completes; fetch the link, or throw.
AutoResolveReply(p) ==
    /\ auto[p].pc = "resolving"
    /\ \E answer \in ResolveAnswers :
          Commit(p, IF answer = "link"
                    THEN Step([auto[p] EXCEPT !.pc = "fetching"], srch[p],
                              <<[kind |-> "fetch", to |-> net[p][Len(net[p])].to,
                                 id |-> net[p][Len(net[p])].id]>>,
                              FALSE)
                    ELSE AutoCatch(auto[p], srch[p]))
    /\ UNCHANGED <<servers, localSubs, subtitles, ld, tc>>
    /\ UNCHANGED <<storeVars, pure, dl>>

\* lines 194-203 and 273-279: the content fetch completes; convert, save and
\* return, or throw.  writeOk is whether localStorage.setItem succeeds
\* (saveChannelSubtitle catches its failure and returns false).
AutoFetchReply(p) ==
    /\ auto[p].pc = "fetching"
    /\ \E answer \in FetchAnswers, writeOk \in BOOLEAN :
          IF answer.kind = "text"
          THEN LET f == [auto[p] EXCEPT !.fetched = answer.text,
                                        !.replaced = getChannelSubtitle(
                                            subtitles, auto[p].channelId, auto[p].lang)]
                   content == IF FirstCandidate(f.results).format = "srt"
                              THEN convertSRTtoVTT(answer.text)
                              ELSE answer.text
                   subtitle == SubtitleRecord(f.channelId, f.lang, content, "vtt")
                   g == AutoReturn([f EXCEPT !.events = Append(@, Event("save", f.lang))],
                                   subtitle)
               IN  /\ subtitles' = saveChannelSubtitle(subtitles, f.channelId, f.lang,
                                                       subtitle, writeOk).store
                   /\ Commit(p, IF g.pc = "done" THEN Step(g, srch[p], <<>>, FALSE)
                                ELSE AutoCatch(g, srch[p]))
          ELSE /\ writeOk
               /\ subtitles' = subtitles
               /\ Commit(p, AutoCatch(auto[p], srch[p]))
    /\ UNCHANGED <<servers, localSubs, ld, tc>>
    /\ UNCHANGED <<storeVars, pure, dl>>

(***************************************************************************)
(* The auto-load specification: providers are configured and subtitles     *)
(* saved, then one autoLoadSubtitles call runs.                            *)
(***************************************************************************)
NextAuto ==
    \/ AddSubtitleServer(AutoConfigs)
    \/ SaveEarlier
    \/ \E p \in Solo : AutoStart(p)
    \/ \E p \in Solo : SearchReply(p, AutoResponses)
    \/ \E p \in Solo : AutoAfterSearch(p)
    \/ \E p \in Solo : AutoResolveReply(p)
    \/ \E p \in Solo : AutoFetchReply(p)

SpecAuto == Init /\ [][NextAuto]_vars

(***************************************************************************)
(* Claims about autoLoadSubtitles, checked under SpecAuto.                 *)
(***************************************************************************)
AutoDone(p) == auto[p].pc = "done"

\* The requests the call of proc p has issued so far.
TotalRequests(p) == auto[p].nreq + Len(net[p])

AutoLoaders == {i \in 1..Len(servers) : servers[i].autoLoad}

\* The language of the first pair of the iteration: the first listed language
\* of the first autoLoad provider that lists any (no element if there is none).
FirstLangs ==
    {servers[i].languages[1] :
        i \in {n \in AutoLoaders :
                  /\ Len(servers[n].languages) > 0
                  /\ \A m \in AutoLoaders : m < n => Len(servers[m].languages) = 0}}

\* The languages with a subtitle saved for the call's channel when it began
\* that some autoLoad provider lists.
SavedListed(p) ==
    {L \in Langs :
        /\ auto[p].before[<<auto[p].channelId, L>>] # Null
        /\ \E i \in AutoLoaders : L \in Range(servers[i].languages)}

\* C9 as stated: when a subtitle is saved for (channelId, L), L listed by some
\* autoLoad provider, the call returns such a saved subtitle (that of L, or of
\* another such language when several are saved) and issues no request.
Orig_C9_SavedShortCircuits ==
    \A p \in Procs :
        (AutoDone(p) /\ SavedListed(p) # {}) =>
            /\ \E L \in SavedListed(p) :
                  auto[p].value = auto[p].before[<<auto[p].channelId, L>>]
            /\ TotalRequests(p) = 0

\* C9 as amended: a subtitle saved for (channelId, L), L being the language of
\* the first pair of the iteration, is what the call returns; the call issues
\* no request, runs no search and leaves the store as it was.
Thm_C9_SavedFirstShortCircuits ==
    \A p \in Procs :
        auto[p].pc # "idle" =>
            \A L \in FirstLangs :
                auto[p].before[<<auto[p].channelId, L>>] # Null =>
                    /\ AutoDone(p)
                    /\ auto[p].outcome = "return"
                    /\ auto[p].value = auto[p].before[<<auto[p].channelId, L>>]
                    /\ auto[p].events = <<Event("cache", L)>>
                    /\ TotalRequests(p) = 0
                    /\ subtitles = auto[p].before

\* C9 witness: the first provider is not autoLoad, the second is and lists ar
\* then en; ar was saved, en was not; the call returned the ar subtitle.
Wit_C9_SavedReturned ==
    \E p \in Procs :
        /\ AutoDone(p)
        /\ Len(servers) = 2
        /\ ~servers[1].autoLoad
        /\ servers[2].autoLoad
        /\ servers[2].languages = <<"ar", "en">>
        /\ auto[p].before[<<auto[p].channelId, "en">>] = Null
        /\ auto[p].value = EarlierSubtitle(auto[p].channelId, "ar")
        /\ TotalRequests(p) = 0

\* C10: a call saves at most once, and a saved subtitle found or a subtitle
\* saved is the last thing the call does: it then returns that subtitle, and
\* no search, download or save follows.
Thm_C10_FirstSuccessWins ==
    \A p \in Procs :
        auto[p].pc # "idle" =>
            LET ev == auto[p].events
            IN  /\ Cardinality({k \in 1..Len(ev) : ev[k].op = "save"}) <= 1
                /\ Cardinality({key \in DOMAIN subtitles :
                                   subtitles[key] # auto[p].before[key]}) <= 1
                /\ \A k \in 1..Len(ev) :
                      ev[k].op \in {"cache", "save"} =>
                          /\ k = Len(ev)
                          /\ AutoDone(p)
                          /\ auto[p].outcome = "return"
                          /\ auto[p].value # Null
                          /\ auto[p].value.language = ev[k].lang
                          /\ auto[p].lang = ev[k].lang
                          /\ auto[p].downloads = IF ev[k].op = "save" THEN 1 ELSE 0
                /\ (AutoDone(p) /\ auto[p].value # Null) =>
                      Len(ev) > 0 /\ ev[Len(ev)].op \in {"cache", "save"}

\* C10 witness: a call that ended by saving a subtitle for its first provider
\* after an earlier pair failed, with a second autoLoad provider left untried.
Wit_C10_SavedWithPairsLeft ==
    \E p \in Procs :
        /\ AutoDone(p)
        /\ Len(auto[p].asv) = 2
        /\ auto[p].i = 1
        /\ auto[p].j = 2
        /\ auto[p].events[Len(auto[p].events)].op = "save"
        /\ subtitles # auto[p].before

\* The languages of the pairs of the call of proc p, in iteration order:
\* autoLoad providers in configured order, each one's languages as listed.
PairLangs(p) ==
    FlatSeq([k \in 1..Len(auto[p].asv) |-> servers[auto[p].asv[k]].languages])

\* The pairs the call has looked at so far (a save belongs to the pair of the
\* search before it).
PairsTried(p) ==
    SelectSeq(auto[p].events, LAMBDA ev : ev.op \in {"cache", "search"})

\* C11: the call never throws; the pairs it tries are the pairs in iteration
\* order, none skipped; a call that returns no subtitle has tried every pair
\* and has left the store as it was.
Thm_C11_FailuresCaughtLoopGoesOn ==
    \A p \in Procs :
        auto[p].pc # "idle" =>
            /\ auto[p].outcome # "throw"
            /\ Len(PairsTried(p)) <= Len(PairLangs(p))
            /\ \A k \in 1..Len(PairsTried(p)) : PairsTried(p)[k].lang = PairLangs(p)[k]
            /\ (AutoDone(p) /\ auto[p].value = Null) =>
                  /\ auto[p].outcome = "return"
                  /\ Len(PairsTried(p)) = Len(PairLangs(p))
                  /\ \A k \in 1..Len(auto[p].events) : auto[p].events[k].op = "search"
                  /\ subtitles = auto[p].before

\* C11 witness: a single provider listing ar then en; the search for ar found a
\* candidate whose download failed, the search for en found none; the call
\* returned no subtitle.
Wit_C11_DownloadFailedThenNone ==
    \E p \in Procs :
        /\ AutoDone(p)
        /\ auto[p].outcome = "return"
        /\ auto[p].value = Null
        /\ auto[p].events = <<Event("search", "ar"), Event("search", "en")>>
        /\ Len(servers) = 1
        /\ TotalRequests(p) >= 3

\* C12: with no autoLoad provider (no provider at all included) the call
\* returns no subtitle at once: it throws nothing, looks up and searches
\* nothing, issues no request and leaves the store as it was.
Thm_C12_NoAutoLoadReturnsNull ==
    \A p \in Procs :
        (auto[p].pc # "idle" /\ AutoLoaders = {}) =>
            /\ AutoDone(p)
            /\ auto[p].outcome = "return"
            /\ auto[p].value = Null
            /\ auto[p].events = <<>>
            /\ TotalRequests(p) = 0
            /\ srch[p].pc = "idle"
            /\ subtitles = auto[p].before

\* C12 witness: the only provider lists en and is not autoLoad, a subtitle is
\* saved for en, and the call returned no subtitle.
Wit_C12_SavedButNoAutoLoad ==
    \E p \in Procs :
        /\ AutoDone(p)
        /\ Len(servers) = 1
        /\ ~servers[1].autoLoad
        /\ servers[1].languages = <<"en">>
        /\ subtitles[<<auto[p].channelId, "en">>] # Null
        /\ auto[p].value = Null

\* The download requests (resolve POSTs and content fetches) issued for the
\* pair the call of proc p is at.
DownloadRequests(p) ==
    SelectSeq(net[p], LAMBDA rq : rq.kind \in {"resolve", "fetch"})

\* The call of proc p ended by saving: its last step was the save of line 279.
EndedBySaving(p) ==
    /\ AutoDone(p)
    /\ Len(auto[p].events) > 0
    /\ auto[p].events[Len(auto[p].events)].op = "save"

\* What line 279 is to save for the pair at hand: the text downloaded,
\* converted when the first candidate is in the srt format, labelled vtt.
NormalizedSubtitle(p) ==
    SubtitleRecord(auto[p].channelId, auto[p].lang,
                   IF auto[p].results[1].format = "srt"
                   THEN convertSRTtoVTT(auto[p].fetched)
                   ELSE auto[p].fetched,
                   "vtt")

\* The part of C13 about the candidate and the value: for a pair there is at
\* most one download, every download request is for the first candidate of
\* the aggregate, and a call that ended by saving returns the normalized
\* subtitle of that candidate's text.
DownloadsFirstCandidateOnly ==
    \A p \in Procs :
        auto[p].pc # "idle" =>
            /\ auto[p].downloads <= 1
            /\ auto[p].pc \in {"resolving", "fetching"} =>
                  auto[p].downloads = 1 /\ Len(auto[p].results) > 0
            /\ \A k \in 1..Len(DownloadRequests(p)) :
                  /\ Len(auto[p].results) > 0
                  /\ DownloadRequests(p)[k].id = auto[p].results[1].id
                  /\ DownloadRequests(p)[k].to = auto[p].results[1].serverInfo
            /\ EndedBySaving(p) =>
                  /\ auto[p].downloads = 1
                  /\ auto[p].value = NormalizedSubtitle(p)
                  /\ auto[p].value.format = "vtt"

\* C13 as stated: the above, and the value a call that ended by saving
\* returned is the value persisted under (channelId, L).
Orig_C13_ReturnsWhatItPersisted ==
    /\ DownloadsFirstCandidateOnly
    /\ \A p \in Procs :
          EndedBySaving(p) =>
              subtitles[<<auto[p].channelId, auto[p].lang>>] = auto[p].value

\* C13 witness: two candidates, the first in the vtt format; the call returned
\* a subtitle that the store does not hold.
Wit_C13_ReturnedNotPersisted ==
    \E p \in Procs :
        /\ EndedBySaving(p)
        /\ Len(auto[p].results) = 2
        /\ auto[p].results[1].format = "vtt"
        /\ auto[p].value.content = auto[p].fetched
        /\ subtitles[<<auto[p].channelId, auto[p].lang>>] = Null

(***************************************************************************)
(* The saved subtitles as a store of their own: saveChannelSubtitle and    *)
(* getChannelSubtitle called in any order.  st records the last call and,  *)
(* as history, `last`: for every key the subtitle of the most recent save  *)
(* that succeeded (null when there was none).                              *)
(***************************************************************************)
Contents == {<<"WEBVTT", "", "old">>, <<"WEBVTT", "", "new">>}

NeverSaved == [key \in StoredChannelIds \X Langs |-> Null]

LastSaved == IF st.pc = "idle" THEN NeverSaved ELSE st.last

SaveChannelSubtitle ==
    /\ AllIdle
    /\ \E c \in StoredChannelIds, l \in Langs, content \in Contents, writeOk \in BOOLEAN :
          LET subtitle == SubtitleRecord(c, l, content, "vtt")
              r == saveChannelSubtitle(subtitles, c, l, subtitle, writeOk)
          IN  /\ subtitles' = r.store
              /\ st' = [pc |-> "done", op |-> "saveChannelSubtitle", channelId |-> c,
                        language |-> l, value |-> subtitle, ok |-> r.ok,
                        last |-> IF r.ok
                                 THEN [LastSaved EXCEPT ![<<c, l>>] = subtitle]
                                 ELSE LastSaved]
    /\ UNCHANGED <<servers, localSubs, srch, auto, net, ld, tc>>
    /\ UNCHANGED <<playlists, ipServers, iptvChannels, nextId, pure, dl>>

GetChannelSubtitle ==
    /\ AllIdle
    /\ \E c \in StoredChannelIds, l \in Langs :
          st' = [pc |-> "done", op |-> "getChannelSubtitle", channelId |-> c,
                 language |-> l, value |-> getChannelSubtitle(subtitles, c, l),
                 ok |-> TRUE, last |-> LastSaved]
    /\ UNCHANGED <<servers, localSubs, subtitles, srch, auto, net, ld, tc>>
    /\ UNCHANGED <<playlists, ipServers, iptvChannels, nextId, pure, dl>>

NextSubtitles ==
    \/ SaveChannelSubtitle
    \/ GetChannelSubtitle

SpecSubtitles == Init /\ [][NextSubtitles]_vars

\* C14: the store holds one entry per (channelId, language): what
\* getChannelSubtitle returns for a key is the subtitle most recently saved
\* for it, null when none was saved; a save changes no other key's entry.
Thm_C14_OnePerKeyLastSaveWins ==
    /\ \A c \in StoredChannelIds, l \in Langs :
          getChannelSubtitle(subtitles, c, l) = LastSaved[<<c, l>>]
    /\ st.pc = "done" /\ st.op = "getChannelSubtitle" =>
          st.value = LastSaved[<<st.channelId, st.language>>]
    /\ st.pc = "done" /\ st.op = "saveChannelSubtitle" /\ st.ok =>
          subtitles[<<st.channelId, st.language>>] = st.value

\* C14 witness: (5, en) was saved twice and holds the newer subtitle, (5, ar)
\* and (6, en) hold older ones; the last call read (5, en).
Wit_C14_OverwrittenOthersKept ==
    /\ st.pc = "done"
    /\ st.op = "getChannelSubtitle"
    /\ st.channelId = 5
    /\ st.language = "en"
    /\ st.value = SubtitleRecord(5, "en", <<"WEBVTT", "", "new">>, "vtt")
    /\ subtitles[<<5, "ar">>] = SubtitleRecord(5, "ar", <<"WEBVTT", "", "old">>, "vtt")
    /\ subtitles[<<6, "en">>] = SubtitleRecord(6, "en", <<"WEBVTT", "", "old">>, "vtt")
    /\ subtitles[<<6, "ar">>] = Null

(***************************************************************************)
(* The playlists, the IP servers and the channels.  A source is [id]; a    *)
(* channel is [id, playlistId, name, serverId].  No code of the repository *)
(* sets serverId, which deleteIPServer reads: it is undefined (Null) in    *)
(* every channel.  generateId joins the time and a random string; the ids  *)
(* it returns are taken as distinct, and are numbered here.                *)
(*                                                                         *)
(* Every operation reads a key, computes and writes it back with setItem,  *)
(* which throws when the value does not fit; the save* functions catch     *)
(* that and return false.  writeOk is whether the write is accepted.  A    *)
(* delete writes back a sublist of what the key holds, which fits where    *)
(* that did: its writes are accepted.                                      *)
(***************************************************************************)
Source(id) == [id |-> id]

Channel(name) == [name |-> name, serverId |-> Null]

\* The lists handed to addChannels: up to MaxStreams channels, named 1, 2, ...
\* in one order or the other.
ChannelLists ==
    {[k \in 1..n |-> Channel(k)] : n \in 0..MaxStreams}
    \cup {[k \in 1..n |-> Channel(n + 1 - k)] : n \in 2..MaxStreams}

\* The store before a call, for st.
StoreNow == [playlists |-> playlists, ipServers |-> ipServers, iptvChannels |-> iptvChannels]

\* The ids generateId has returned.
KnownIds == 1..(nextId - 1)

\* lines 47-55.
AddPlaylist ==
    /\ AllIdle
    /\ nextId <= MaxIds
    /\ \E writeOk \in BOOLEAN :
          /\ playlists' = IF writeOk THEN Append(playlists, Source(nextId)) ELSE playlists
          /\ st' = [pc |-> "done", op |-> "addPlaylist", id |-> nextId, list |-> <<>>,
                    ok |-> writeOk, before |-> StoreNow]
    /\ nextId' = nextId + 1
    /\ UNCHANGED <<ipServers, iptvChannels>>
    /\ UNCHANGED <<servers, localSubs, subtitles, srch, auto, net, ld, tc, pure, dl>>

\* lines 274-282.
AddIPServer ==
    /\ AllIdle
    /\ nextId <= MaxIds
    /\ \E writeOk \in BOOLEAN :
          /\ ipServers' = IF writeOk THEN Append(ipServers, Source(nextId)) ELSE ipServers
          /\ st' = [pc |-> "done", op |-> "addIPServer", id |-> nextId, list |-> <<>>,
                    ok |-> writeOk, before |-> StoreNow]
    /\ nextId' = nextId + 1
    /\ UNCHANGED <<playlists, iptvChannels>>
    /\ UNCHANGED <<servers, localSubs, subtitles, srch, auto, net, ld, tc, pure, dl>>

\* lines 106-123: the channels of other sources, then the list with fresh ids
\* and the source's id.
addChannels(existing, playlistId, list, firstId) ==
    SelectSeq(existing, LAMBDA c : c.playlistId # playlistId)
    \o [k \in 1..Len(list) |->
           [id |-> firstId + k - 1, playlistId |-> playlistId,
            name |-> list[k].name, serverId |-> list[k].serverId]]

AddChannels ==
    /\ AllIdle
    /\ \E playlistId \in KnownIds, list \in ChannelLists, writeOk \in BOOLEAN :
          /\ nextId + Len(list) <= MaxIds + 1
          /\ iptvChannels' = IF writeOk
                             THEN addChannels(iptvChannels, playlistId, list, nextId)
                             ELSE iptvChannels
          /\ nextId' = nextId + Len(list)
          /\ st' = [pc |-> "done", op |-> "addChannels", id |-> playlistId, list |-> list,
                    ok |-> writeOk, before |-> StoreNow]
    /\ UNCHANGED <<playlists, ipServers>>
    /\ UNCHANGED <<servers, localSubs, subtitles, srch, auto, net, ld, tc, pure, dl>>

\* lines 62-65 and 289-292: the sources but the one of this id.
WithoutSource(sources, id) == SelectSeq(sources, LAMBDA src : src.id # id)

\* lines 69-71: the channels but those of the playlist.
WithoutPlaylistChannelsKeepAll(chs, id) == chs
WithoutPlaylistChannels(chs, id) == SelectSeq(chs, LAMBDA c : c.playlistId # id)

\* lines 296-298: the channels but those of the server.
WithoutServerChannels(chs, id) ==
    SelectSeq(chs, LAMBDA c : /\ c.playlistId # id
                              /\ (c.serverId = Null \/ c.serverId # id))

\* lines 60-75.
DeletePlaylist ==
    /\ AllIdle
    /\ \E id \in KnownIds :
          /\ playlists' = WithoutSource(playlists, id)
          /\ iptvChannels' = WithoutPlaylistChannels(iptvChannels, id)
          /\ st' = [pc |-> "done", op |-> "deletePlaylist", id |-> id, list |-> <<>>,
                    ok |-> TRUE, before |-> StoreNow]
    /\ UNCHANGED <<ipServers, nextId>>
    /\ UNCHANGED <<servers, localSubs, subtitles, srch, auto, net, ld, tc, pure, dl>>

\* lines 287-302.
DeleteIPServer ==
    /\ AllIdle
    /\ \E id \in KnownIds :
          /\ ipServers' = WithoutSource(ipServers, id)
          /\ iptvChannels' = WithoutServerChannels(iptvChannels, id)
          /\ st' = [pc |-> "done", op |-> "deleteIPServer", id |-> id, list |-> <<>>,
                    ok |-> TRUE, before |-> StoreNow]
    /\ UNCHANGED <<playlists, nextId>>
    /\ UNCHANGED <<servers, localSubs, subtitles, srch, auto, net, ld, tc, pure, dl>>

NextChannels ==
    \/ AddPlaylist
    \/ AddIPServer
    \/ AddChannels
    \/ DeletePlaylist
    \/ DeleteIPServer

SpecChannels == Init /\ [][NextChannels]_vars

(***************************************************************************)
(* Claims about the channels, checked under SpecChannels.                  *)
(***************************************************************************)
\* The channels of a source, and the others, in stored order.
ChannelsOf(chs, id) == SelectSeq(chs, LAMBDA c : c.playlistId = id)
OtherChannels(chs, id) == SelectSeq(chs, LAMBDA c : c.playlistId # id)

ChannelNames(chs) == [k \in 1..Len(chs) |-> chs[k].name]
ChannelIdsIn(chs) == {chs[k].id : k \in 1..Len(chs)}

\* Every stored channel carries the id of one source and no other owner.
OneOwnerEach ==
    \A k \in 1..Len(iptvChannels) :
        /\ iptvChannels[k].playlistId \in KnownIds
        /\ iptvChannels[k].serverId = Null

\* What addChannels(st.id, st.list) is to leave: the source's channels are
\* the list's, in order, none of them a channel stored before; the channels
\* of the other sources are as before.
Replaced ==
    /\ ChannelNames(ChannelsOf(iptvChannels, st.id)) = ChannelNames(st.list)
    /\ ChannelIdsIn(ChannelsOf(iptvChannels, st.id))
           \cap ChannelIdsIn(st.before.iptvChannels) = {}
    /\ OtherChannels(iptvChannels, st.id) = OtherChannels(st.before.iptvChannels, st.id)

\* The part of C15 that holds: a reload whose write the store accepted is a
\* full replace; one whose write it refused leaves the channels as they were.
ReloadReplacesWhenWritten ==
    /\ OneOwnerEach
    /\ (st.pc = "done" /\ st.op = "addChannels") =>
          IF st.ok THEN Replaced ELSE iptvChannels = st.before.iptvChannels

\* C15 as stated: after addChannels(sourceId, list) the stored channels of
\* sourceId are exactly the elements of list, in order, none of the prior
\* ones surviving; every channel has one owner; the others are unchanged.
Orig_C15_ReloadIsFullReplace ==
    /\ OneOwnerEach
    /\ (st.pc = "done" /\ st.op = "addChannels") => Replaced

\* C15 witness: source 1 had one channel stored; addChannels(1, list) with a
\* list of two channels returned, and the store still holds the old channel
\* and none of the list.
Wit_C15_ReloadLost ==
    /\ st.pc = "done"
    /\ st.op = "addChannels"
    /\ st.id = 1
    /\ Len(st.list) = 2
    /\ Len(ChannelsOf(iptvChannels, 1)) = 1
    /\ ChannelsOf(iptvChannels, 1)[1].id \in ChannelIdsIn(st.before.iptvChannels)

\* The channels deleteIPServer takes as the source's: by playlistId or by
\* serverId.
BelongsTo(c, id) == c.playlistId = id \/ (c.serverId # Null /\ c.serverId = id)

Listed(sources, id) == \E k \in 1..Len(sources) : sources[k].id = id

\* C16: after deletePlaylist(id) or deleteIPServer(id) no stored channel
\* belongs to id, the playlist (the IP server) of that id is not listed, and
\* the channels of the other sources are as they were before the call.
Thm_C16_DeleteTakesChannels ==
    (st.pc = "done" /\ st.op \in {"deletePlaylist", "deleteIPServer"}) =>
        /\ \A k \in 1..Len(iptvChannels) : ~BelongsTo(iptvChannels[k], st.id)
        /\ st.op = "deletePlaylist" => ~Listed(playlists, st.id)
        /\ st.op = "deleteIPServer" => ~Listed(ipServers, st.id)
        /\ OtherChannels(iptvChannels, st.id) = OtherChannels(st.before.iptvChannels, st.id)
        /\ st.op = "deletePlaylist" => ipServers = st.before.ipServers
        /\ st.op = "deleteIPServer" => playlists = st.before.playlists

\* C16 witness: playlist 1 and IP server 2 both had channels; playlist 1 was
\* deleted, the channels of server 2 are still stored.
Wit_C16_PlaylistDeletedServerKept ==
    /\ st.pc = "done"
    /\ st.op = "deletePlaylist"
    /\ st.id = 1
    /\ Listed(st.before.playlists, 1)
    /\ Listed(ipServers, 2)
    /\ Len(ChannelsOf(st.before.iptvChannels, 1)) > 0
    /\ Len(ChannelsOf(iptvChannels, 2)) > 0

(***************************************************************************)
(* M3UParser.parse as a function of the lines of a playlist: the input is  *)
(* drawn, the call computes the output.  pure is [pc, fn, input, output].  *)
(***************************************************************************)
M3ULines ==
    {ExtInf("A", ""), ExtInf("B", ""), UrlLine("http://a"), UrlLine("http://b"),
     ExtGrp("News"), CommentLine, BlankLine}

PureCall(fn, input) == [pc |-> "idle", fn |-> fn, input |-> input, output |-> <<>>]

InitParse ==
    /\ InitStorage /\ InitChannelStore /\ InitFrames
    /\ pure \in {PureCall("parse", lines) : lines \in SeqsUpTo(M3ULines, MaxM3ULines)}

ParseCall ==
    /\ pure.pc = "idle"
    /\ pure.fn = "parse"
    /\ pure' = [pure EXCEPT !.pc = "done", !.output = parse(pure.input)]
    /\ UNCHANGED <<servers, localSubs, subtitles, srch, auto, net, ld, tc, storeVars, dl>>

NextParse == ParseCall

SpecParse == InitParse /\ [][NextParse]_vars

(***************************************************************************)
(* Claims about M3UParser.parse, checked under SpecParse.                  *)
(***************************************************************************)
ParseDone == pure.pc = "done" /\ pure.fn = "parse"

\* The #EXTINF and URL lines of a playlist, in order.
Core(lines) == SelectSeq(lines, LAMBDA l : l.kind \in {"extinf", "url"})

\* The playlist is N #EXTINF + URL pairs, whatever else lies between.
PairsOnly(lines) ==
    LET c == Core(lines)
    IN  /\ Len(c) % 2 = 0
        /\ \A k \in 1..Len(c) : c[k].kind = IF k % 2 = 1 THEN "extinf" ELSE "url"

\* C17: a playlist of N well-formed pairs, with comment, directive and blank
\* lines anywhere, gives N channels in source order, the k-th with the name
\* and the URL of the k-th pair.
Thm_C17_OneChannelPerPair ==
    (ParseDone /\ PairsOnly(pure.input)) =>
        LET c == Core(pure.input)
            out == pure.output
        IN  /\ Len(out) * 2 = Len(c)
            /\ \A k \in 1..Len(out) :
                  /\ out[k].name = c[2 * k - 1].name
                  /\ out[k].url = c[2 * k].text

\* C17 witness: two pairs, a comment between the first #EXTINF and its URL.
Wit_C17_CommentInsidePair ==
    /\ ParseDone
    /\ pure.input = <<ExtInf("A", ""), CommentLine, UrlLine("http://a"),
                      ExtInf("B", ""), UrlLine("http://b")>>
    /\ Len(pure.output) = 2
    /\ pure.output[2].url = "http://b"

\* The positions, among the #EXTINF and URL lines, of the URL lines that come
\* right after an #EXTINF line: those a record is pending for.
Emitting(c) ==
    SelectSeq([k \in 1..Len(c) |-> k],
              LAMBDA k : k > 1 /\ c[k].kind = "url" /\ c[k - 1].kind = "extinf")

\* C18: the channels are those of the URL lines a record is pending for, one
\* each: a URL line with none pending (the first line, or one after another
\* URL line) and an #EXTINF line followed by another #EXTINF line or by the
\* end give no channel; every channel has a URL.
Thm_C18_StrayLinesDropped ==
    ParseDone =>
        LET c == Core(pure.input)
            e == Emitting(c)
            out == pure.output
        IN  /\ Len(out) = Len(e)
            /\ \A j \in 1..Len(out) :
                  /\ out[j].name = c[e[j] - 1].name
                  /\ out[j].url = c[e[j]].text
                  /\ out[j].url # ""

\* C18 witness: a URL line first, two #EXTINF lines, then two URL lines: one
\* channel, B with the first of the two URLs.
Wit_C18_OneOfFiveLines ==
    /\ ParseDone
    /\ pure.input = <<UrlLine("http://a"), ExtInf("A", ""), ExtInf("B", ""),
                      UrlLine("http://b"), UrlLine("http://a")>>
    /\ Len(pure.output) = 1
    /\ pure.output[1].name = "B"
    /\ pure.output[1].url = "http://b"

(***************************************************************************)
(* Playlist text.  A text is a sequence of tokens: the markers the parser  *)
(* and validate look for, each a token of its own, the characters that     *)
(* matter to them (#, :, blank, line feed) and x, any other character.     *)
(***************************************************************************)
Chars == {"#EXTM3U", "#EXTINF", "#EXTGRP", "#", ":", " ", "\n", "x"}

\* What String.prototype.trim strips: blanks and line terminators, the
\* carriage return among them.
Whitespace == {" ", "\r"}

\* The tokens whose first character is #.
HashTokens == {"#EXTM3U", "#EXTINF", "#EXTGRP", "#"}

\* String.prototype.split('\n'): the pieces between the line feeds.
RECURSIVE SplitFrom(_, _, _, _)
SplitFrom(content, k, piece, pieces) ==
    IF k > Len(content) THEN Append(pieces, piece)
    ELSE IF content[k] = "\n" THEN SplitFrom(content, k + 1, <<>>, Append(pieces, piece))
    ELSE SplitFrom(content, k + 1, Append(piece, content[k]), pieces)

Split(content) == SplitFrom(content, 1, <<>>, <<>>)

\* String.prototype.trim.
RECURSIVE Trim(_)
Trim(line) ==
    IF Len(line) = 0 THEN line
    ELSE IF Head(line) \in Whitespace THEN Trim(Tail(line))
    ELSE IF line[Len(line)] \in Whitespace THEN Trim(SubSeq(line, 1, Len(line) - 1))
    ELSE line

StartsWith(line, prefix) ==
    Len(line) >= Len(prefix) /\ SubSeq(line, 1, Len(prefix)) = prefix

\* m3u-parser.js lines 18-35: what the loop takes a raw line for.  No token is
\* a comma or a quote: an #EXTINF line has no name and no attribute.
LineOf(raw) ==
    LET line == Trim(raw)
        rest == Trim(SubSeq(line, 3, Len(line)))
        as(kind, text) == [kind |-> kind, name |-> "", tvgName |-> "", logo |-> "",
                           group |-> "", text |-> text]
    IN  IF Len(line) = 0 THEN as("blank", <<>>)
        ELSE IF StartsWith(line, <<"#EXTM3U">>) THEN as("header", line)
        ELSE IF StartsWith(line, <<"#EXTINF", ":">>) THEN as("extinf", line)
        ELSE IF StartsWith(line, <<"#EXTGRP", ":">>) THEN as("extgrp", rest)
        ELSE IF Head(line) \in HashTokens THEN as("comment", line)
        ELSE as("url", line)

\* M3UParser.parse of a text.
parseText(content) ==
    LET raw == Split(content)
    IN  parse([k \in 1..Len(raw) |-> LineOf(raw[k])])

Contains(content, marker) == \E k \in 1..Len(content) : content[k] = marker

\* M3UParser.validate (lines 116-124) of a text.
validateHeaderOnly(content) ==
    Len(content) > 0 /\ Contains(content, "#EXTM3U")
validate(content) ==
    /\ Len(content) > 0
    /\ Contains(content, "#EXTM3U") \/ Contains(content, "#EXTINF")

InitText ==
    /\ InitStorage /\ InitChannelStore /\ InitFrames
    /\ pure \in {[pc |-> "idle", fn |-> "parse", input |-> content, output |-> <<>>,
                  valid |-> "unknown"] : content \in SeqsUpTo(Chars, MaxChars)}

ParseTextCall ==
    /\ pure.pc = "idle"
    /\ pure' = [pure EXCEPT !.pc = "done", !.output = parseText(pure.input)]
    /\ UNCHANGED <<servers, localSubs, subtitles, srch, auto, net, ld, tc, storeVars, dl>>

ValidateCall ==
    /\ pure.valid = "unknown"
    /\ pure' = [pure EXCEPT !.valid = IF validate(pure.input) THEN "true" ELSE "false"]
    /\ UNCHANGED <<servers, localSubs, subtitles, srch, auto, net, ld, tc, storeVars, dl>>

NextText ==
    \/ ParseTextCall
    \/ ValidateCall

SpecText == InitText /\ [][NextText]_vars

\* C19: a text that parse returns at least one channel for is one validate
\* returns true for.
Thm_C19_ParsedImpliesValid ==
    (pure.pc = "done" /\ pure.valid # "unknown" /\ Len(pure.output) >= 1) =>
        pure.valid = "true"

\* C19 witness: a text without #EXTM3U header: an indented #EXTINF: line and
\* a URL line; parse returned one channel and validate returned true.
Wit_C19_NoHeaderOneChannel ==
    /\ pure.pc = "done"
    /\ pure.input = <<" ", "#EXTINF", ":", "\n", "x">>
    /\ Len(pure.output) = 1
    /\ pure.output[1].url = <<"x">>
    /\ pure.valid = "true"

(***************************************************************************)
(* convertSRTtoVTT as a function of the text.                              *)
(***************************************************************************)
SrtChars == Clocks \cup Millis \cup {",", ".", "Hi"}

InitConvert ==
    /\ InitStorage /\ InitChannelStore /\ InitFrames
    /\ pure \in {PureCall("convertSRTtoVTT", text) : text \in SeqsUpTo(SrtChars, MaxSrtLen)}

ConvertCall ==
    /\ pure.pc = "idle"
    /\ pure.fn = "convertSRTtoVTT"
    /\ pure' = [pure EXCEPT !.pc = "done", !.output = convertSRTtoVTT(pure.input)]
    /\ UNCHANGED <<servers, localSubs, subtitles, srch, auto, net, ld, tc, storeVars, dl>>

NextConvert == ConvertCall

SpecConvert == InitConvert /\ [][NextConvert]_vars

\* The positions where an occurrence of the timestamp pattern starts, with
\* the comma or with the dot as separator.
Occurrences(text, separator) ==
    {k \in 1..Len(text) : StampAtHead(SubSeq(text, k, Len(text)), separator)}

ConvertDone == pure.pc = "done" /\ pure.fn = "convertSRTtoVTT"

\* The output is the header, then the input with the comma of every
\* occurrence of the comma pattern turned into a dot and nothing else
\* changed; no occurrence of the comma pattern is left.
HeaderThenRewritten ==
    LET body == SubSeq(pure.output, Len(VttHeader) + 1, Len(pure.output))
    IN  /\ SubSeq(pure.output, 1, Len(VttHeader)) = VttHeader
        /\ Len(body) = Len(pure.input)
        /\ \A j \in 1..Len(body) :
              body[j] = IF j - 1 \in Occurrences(pure.input, ",") THEN "."
                        ELSE pure.input[j]
        /\ Occurrences(pure.output, ",") = {}

DownloadRefs == {"ref1", "ref2"}
DefaultApiUrl == "https://api.opensubtitles.com/api/v1"
ApiUrls == {"", "https://mirror/api"}
Links == {"https://cdn/1", "https://cdn/2"}
Statuses == {200, 404, 500}
Bodies == {"sub1"}

\* The candidates: what the search functions build (serverType, url and
\* serverInfo are what the download reads), and one of a type the download
\* does not know.
Candidates ==
    [serverType : {"opensubtitles", "custom", "local", "ftp"}, url : DownloadRefs,
     serverInfo : [apiUrl : ApiUrls]]

\* What a request is answered: the fetch rejects, or a response with a status
\* and a body.  json is whether response.json() parses the body; link is
\* data.link, "" when the object has none.
Rejected == [kind |-> "reject", status |-> 0, json |-> FALSE, link |-> "", text |-> ""]
ResolveReplies ==
    {Rejected}
    \cup [kind : {"response"}, status : Statuses, json : {FALSE}, link : {""}, text : {""}]
    \cup [kind : {"response"}, status : Statuses, json : {TRUE}, link : Links \cup {""},
          text : {""}]
FetchReplies ==
    {Rejected}
    \cup [kind : {"response"}, status : Statuses, json : {FALSE}, link : {""}, text : Bodies]

\* The errors a download ends with.
NoError == [message |-> "", status |-> 0]
FetchRejected == [message |-> "TypeError: fetch failed", status |-> 0]
JsonRejected == [message |-> "SyntaxError: not JSON", status |-> 0]
DownloadFailed(status) == [message |-> "Download failed: ", status |-> status]
NoDownloadLink == [message |-> "No download link provided", status |-> 0]
UnknownServerType == [message |-> "Unknown server type", status |-> 0]

\* response.ok: the status is in 200..299.
ResponseOkAlways(reply) == TRUE
ResponseOk(reply) == reply.status \in 200..299

\* line 184: if (data.link).
HasLinkAlways(reply) == TRUE
HasLink(reply) == reply.link # ""

\* lines 163-176: the resolve POST.
ResolveRequest(subtitle) ==
    [method |-> "POST",
     url |-> <<IF subtitle.serverInfo.apiUrl # "" THEN subtitle.serverInfo.apiUrl
               ELSE DefaultApiUrl, "/download">>,
     file_id |-> subtitle.url]

\* line 195: fetch(url).
UrlRequest(url) == [method |-> "GET", url |-> <<url>>, file_id |-> ""]

DownloadThrow(f, error) == [f EXCEPT !.pc = "done", !.outcome = "throw", !.error = error]
DownloadReturn(f, content) ==
    [f EXCEPT !.pc = "done", !.outcome = "return", !.content = content]

\* downloadFromURL up to its fetch.
downloadFromURL(f, url) ==
    [f EXCEPT !.pc = "fetching", !.requests = Append(@, UrlRequest(url))]

\* lines 149-165: downloadSubtitle up to its first request.
DownloadStart ==
    /\ dl.pc = "idle"
    /\ \E subtitle \in Candidates :
          LET f == [pc |-> "idle", subtitle |-> subtitle, requests |-> <<>>,
                    replies |-> <<>>, outcome |-> "none", content |-> "",
                    error |-> NoError]
          IN  dl' = IF subtitle.serverType = "opensubtitles"
                    THEN [f EXCEPT !.pc = "resolving",
                                   !.requests = <<ResolveRequest(subtitle)>>]
                    ELSE IF subtitle.serverType \in {"custom", "local"}
                    THEN downloadFromURL(f, subtitle.url)
                    ELSE DownloadThrow(f, UnknownServerType)
    /\ UNCHANGED <<servers, localSubs, subtitles, srch, auto, net, ld, tc, storeVars, pure>>

\* lines 177-188: the resolve POST is answered.
DownloadResolveReply ==
    /\ dl.pc = "resolving"
    /\ \E reply \in ResolveReplies :
          LET f == [dl EXCEPT !.replies = Append(@, reply)]
          IN  dl' = IF reply.kind = "reject" THEN DownloadThrow(f, FetchRejected)
                    ELSE IF ~ResponseOk(reply)
                    THEN DownloadThrow(f, DownloadFailed(reply.status))
                    ELSE IF ~reply.json THEN DownloadThrow(f, JsonRejected)
                    ELSE IF HasLink(reply) THEN downloadFromURL(f, reply.link)
                    ELSE DownloadThrow(f, NoDownloadLink)
    /\ UNCHANGED <<servers, localSubs, subtitles, srch, auto, net, ld, tc, storeVars, pure>>

\* lines 197-202: the fetch of downloadFromURL is answered.
DownloadFetchReply ==
    /\ dl.pc = "fetching"
    /\ \E reply \in FetchReplies :
          LET f == [dl EXCEPT !.replies = Append(@, reply)]
          IN  dl' = IF reply.kind = "reject" THEN DownloadThrow(f, FetchRejected)
                    ELSE IF ~ResponseOk(reply)
                    THEN DownloadThrow(f, DownloadFailed(reply.status))
                    ELSE DownloadReturn(f, reply.text)
    /\ UNCHANGED <<servers, localSubs, subtitles, srch, auto, net, ld, tc, storeVars, pure>>

NextDownload ==
    \/ DownloadStart
    \/ DownloadResolveReply
    \/ DownloadFetchReply

SpecDownload == Init /\ [][NextDownload]_vars

DownloadDone == dl.pc = "done"

\* The download is at or past its first request.
Downloading(types) == dl.pc # "idle" /\ dl.subtitle.serverType \in types

\* C21: a download of an opensubtitles candidate issues the resolve POST with
\* the candidate's file identifier first, and a content fetch only after that
\* POST was answered with a 2xx response carrying a link, to that link.  A 2xx
\* answer without a link ends the download with the failure 'No download link
\* provided' and a non-2xx answer with the failure 'Download failed: <status>',
\* which differ, in both cases with the POST as the only request.  A download
\* of a custom or local candidate issues exactly one request, the fetch of the
\* candidate's url, and fails when it is answered with a non-2xx status.
Thm_C21_ResolveThenFetch ==
    /\ Downloading({"opensubtitles"}) =>
          /\ Len(dl.requests) \in {1, 2}
          /\ dl.requests[1] = ResolveRequest(dl.subtitle)
          /\ Len(dl.requests) = 2 =>
                /\ Len(dl.replies) >= 1
                /\ dl.replies[1].kind = "response"
                /\ dl.replies[1].status \in 200..299
                /\ dl.replies[1].link \in Links
                /\ dl.requests[2] = UrlRequest(dl.replies[1].link)
          /\ (Len(dl.replies) >= 1 /\ dl.replies[1].kind = "response"
              /\ dl.replies[1].json /\ dl.replies[1].link = "") =>
                /\ dl.pc = "done" /\ dl.outcome = "throw"
                /\ Len(dl.requests) = 1
                /\ dl.replies[1].status \in 200..299 => dl.error = NoDownloadLink
          /\ (Len(dl.replies) >= 1 /\ dl.replies[1].kind = "response"
              /\ dl.replies[1].status \notin 200..299) =>
                /\ dl.pc = "done" /\ dl.outcome = "throw"
                /\ Len(dl.requests) = 1
                /\ dl.error = DownloadFailed(dl.replies[1].status)
                /\ dl.error # NoDownloadLink
    /\ Downloading({"custom", "local"}) =>
          /\ dl.requests = <<UrlRequest(dl.subtitle.url)>>
          /\ (Len(dl.replies) = 1 /\ dl.replies[1].kind = "response"
              /\ dl.replies[1].status \notin 200..299) =>
                /\ dl.outcome = "throw"
                /\ dl.error = DownloadFailed(dl.replies[1].status)
          /\ (dl.pc = "done" /\ dl.outcome = "return") =>
                /\ dl.replies[1].status \in 200..299
                /\ dl.content = dl.replies[1].text

\* An opensubtitles download whose resolve POST was answered 200 without a
\* link: it failed with 'No download link provided' after that one request.
Wit_C21_NoLinkNoFetch ==
    /\ DownloadDone
    /\ dl.subtitle.serverType = "opensubtitles"
    /\ Len(dl.replies) = 1
    /\ dl.replies[1].status = 200 /\ dl.replies[1].json /\ dl.replies[1].link = ""
    /\ dl.outcome = "throw" /\ dl.error = NoDownloadLink
    /\ Len(dl.requests) = 1

(***************************************************************************)
(* M3UParser.parse on playlists with group directives: #EXTINF lines with  *)
(* and without a group-title, two #EXTGRP lines, a URL line, a comment.    *)
(***************************************************************************)
GroupLines ==
    {ExtInf("A", "Sports"), ExtInf("B", ""), ExtGrp("News"), ExtGrp("Kids"),
     UrlLine("http://a"), CommentLine}

InitGroup ==
    /\ InitStorage /\ InitChannelStore /\ InitFrames
    /\ pure \in {PureCall("parse", lines) : lines \in SeqsUpTo(GroupLines, MaxM3ULines)}

NextGroup == ParseCall

SpecGroup == InitGroup /\ [][NextGroup]_vars

\* The line that opened the record pending before line k: the last #EXTINF
\* line before k with no URL line after it; 0 when none is pending.
PendingAt(lines, k) ==
    LET opened == {x \in 1..(k - 1) :
                      /\ lines[x].kind = "extinf"
                      /\ \A y \in (x + 1)..(k - 1) : lines[y].kind \notin {"extinf", "url"}}
        closed == {x \in 1..(k - 1) :
                      /\ lines[x].kind = "url"
                      /\ \A y \in (x + 1)..(k - 1) : lines[y].kind \notin {"extinf", "url"}}
    IN  IF opened = {} \/ closed # {} THEN 0 ELSE CHOOSE x \in opened : TRUE

\* The URL lines a record is pending at, in order: one channel each.
EmittingLines(lines) ==
    SelectSeq([k \in 1..Len(lines) |-> k],
              LAMBDA k : lines[k].kind = "url" /\ PendingAt(lines, k) # 0)

\* The #EXTGRP lines between the line that opened the record emitted at the
\* URL line u and u.
GroupsFor(lines, u) ==
    {g \in (PendingAt(lines, u) + 1)..(u - 1) : lines[g].kind = "extgrp"}

Max(S) == CHOOSE x \in S : \A y \in S : y <= x

\* The category the claim gives the channel emitted at the URL line u.
CategoryAt(lines, u) ==
    LET x == PendingAt(lines, u)
        G == GroupsFor(lines, u)
    IN  IF G # {} THEN lines[Max(G)].text
        ELSE IF lines[x].group # "" THEN lines[x].group
        ELSE "Uncategorized"

\* The lines without the k-th.
WithoutLine(lines, k) == SubSeq(lines, 1, k - 1) \o SubSeq(lines, k + 1, Len(lines))

\* C22 as stated: after an #EXTGRP:<name> line met with a record pending, the
\* channel emitted next carries <name>.
Orig_C22_NextChannelCarriesName ==
    ParseDone =>
        LET lines == pure.input
            e == EmittingLines(lines)
        IN  \A g \in 1..Len(lines), j \in 1..Len(e) :
               (/\ lines[g].kind = "extgrp"
                /\ PendingAt(lines, g) # 0
                /\ e[j] > g
                /\ \A i \in 1..Len(e) : e[i] > g => i >= j)
               => pure.output[j].category = lines[g].text

\* C22: an #EXTGRP:<name> line met with a record pending overwrites that
\* record's category: the record, when a URL line emits it, carries the name
\* of the last #EXTGRP line met since the #EXTINF line that opened it, and
\* with no such line its group-title, or 'Uncategorized'.  An #EXTGRP line
\* met with no record pending changes nothing: the output is that of the
\* playlist without the line.
Thm_C22_ExtGrpOverwritesPending ==
    ParseDone =>
        LET lines == pure.input
            e == EmittingLines(lines)
        IN  /\ Len(pure.output) = Len(e)
            /\ \A j \in 1..Len(e) : pure.output[j].category = CategoryAt(lines, e[j])
            /\ \A g \in 1..Len(lines) :
                  (lines[g].kind = "extgrp" /\ PendingAt(lines, g) = 0)
                  => pure.output = parse(WithoutLine(lines, g))

\* C22 witness: an #EXTGRP line with nothing pending, then a record with a
\* group-title whose category a pending #EXTGRP line overwrites, then a
\* record that keeps the default.
Wit_C22_OverwrittenAndIgnored ==
    /\ ParseDone
    /\ pure.input = <<ExtGrp("Kids"), ExtInf("A", "Sports"), ExtGrp("News"),
                      UrlLine("http://a"), ExtInf("B", "")>>
    /\ Len(pure.output) = 1
    /\ pure.output[1].category = "News"

(***************************************************************************)
(* M3UParser.parse and the newline conventions.  A playlist is drawn as    *)
(* its logical lines; the text parsed is the lines, each with or without   *)
(* blanks around it, joined by the line separator of one convention.       *)
(***************************************************************************)
MaxTextLines == 3

LF == <<"\n">>
CRLF == <<"\r", "\n">>
CR == <<"\r">>
Separators == {LF, CRLF, CR}

LogicalLines == {<<"#EXTINF", ":", "x">>, <<"x">>, <<"#EXTGRP", ":", "x">>, <<"#", "x">>}

Padded(line, pad) == IF pad THEN <<" ">> \o line \o <<" ">> ELSE line

RECURSIVE Join(_, _, _)
Join(lines, separator, pad) ==
    IF Len(lines) = 0 THEN <<>>
    ELSE IF Len(lines) = 1 THEN Padded(lines[1], pad)
    ELSE Padded(lines[1], pad) \o separator \o Join(Tail(lines), separator, pad)

InitNewline ==
    /\ InitStorage /\ InitChannelStore /\ InitFrames
    /\ pure \in {[pc |-> "idle", fn |-> "parse", lines |-> lines, separator |-> separator,
                  pad |-> pad, input |-> Join(lines, separator, pad), output |-> <<>>] :
                 lines \in SeqsUpTo(LogicalLines, MaxTextLines),
                 separator \in Separators, pad \in BOOLEAN}

NewlineParseCall ==
    /\ pure.pc = "idle"
    /\ pure' = [pure EXCEPT !.pc = "done", !.output = parseText(pure.input)]
    /\ UNCHANGED <<servers, localSubs, subtitles, srch, auto, net, ld, tc, storeVars, dl>>

NextNewline == NewlineParseCall

SpecNewline == InitNewline /\ [][NextNewline]_vars

\* The channels of the same logical lines separated by line feeds, with no
\* blanks around them.
PlainOutput == parseText(Join(pure.lines, LF, FALSE))

\* C23 as stated: the channels are the same whether the lines are separated
\* by LF, by CRLF or by bare CR, with or without blanks around the lines.
Orig_C23_AnyNewlineConvention ==
    pure.pc = "done" => pure.output = PlainOutput

\* What holds: LF and CRLF give the same channels, with or without blanks
\* around the lines.
LfAndCrLfAgree ==
    (pure.pc = "done" /\ pure.separator \in {LF, CRLF}) => pure.output = PlainOutput

\* C23 failing state: an #EXTINF line and a URL line separated by a bare CR
\* are one line to the parser: no channel, where the LF text gives one.
Wit_C23_BareCrOneLine ==
    /\ pure.pc = "done"
    /\ pure.lines = <<<<"#EXTINF", ":", "x">>, <<"x">>>>
    /\ pure.separator = CR
    /\ ~pure.pad
    /\ pure.output = <<>>
    /\ Len(PlainOutput) = 1

(***************************************************************************)
(* More claims about autoLoadSubtitles, checked under SpecAuto.            *)
(***************************************************************************)
\* The providers the search of the pair at hand sent a request to, in order.
SearchedProviders(p) ==
    LET rqs == SelectSeq(net[p], LAMBDA rq : rq.kind = "search")
    IN  [k \in 1..Len(rqs) |-> rqs[k].to]

\* The search of the pair the call of proc p is at is over, and the call has
\* not left the pair: it is downloading, or it ended by saving.
PairSearched(p) ==
    \/ auto[p].pc \in {"resolving", "fetching"}
    \/ EndedBySaving(p)

\* The provider the loop of the call of proc p is at.
IteratedProvider(p) == auto[p].asv[auto[p].i]

\* C24: the search autoLoadSubtitles runs for a pair (provider, L) sends one
\* request to every configured provider that lists L, in configured order,
\* whatever its autoLoad flag, and to no other; the candidate it goes on to
\* download is the first result of that aggregate, from whichever of these
\* providers returned it.
Thm_C24_SearchesAllListers ==
    \A p \in Procs :
        PairSearched(p) =>
            LET sp == SearchedProviders(p)
            IN  /\ Range(sp) = Listers(auto[p].lang)
                /\ \A k \in 1..(Len(sp) - 1) : sp[k] < sp[k + 1]
                /\ IteratedProvider(p) \in Range(sp)
                /\ FirstCandidate(auto[p].results).serverInfo \in Listers(auto[p].lang)

\* C24 witness: the first provider has autoLoad off, the second on, both list
\* en; the loop is at the second, the search asked both, and the subtitle
\* saved and returned is the first provider's.
Wit_C24_SavedFromNonAutoLoad ==
    \E p \in Procs :
        /\ EndedBySaving(p)
        /\ Len(servers) = 2
        /\ ~servers[1].autoLoad /\ servers[2].autoLoad
        /\ IteratedProvider(p) = 2
        /\ SearchedProviders(p) = <<1, 2>>
        /\ FirstCandidate(auto[p].results).serverInfo = 1
        /\ subtitles[<<auto[p].channelId, auto[p].lang>>] = auto[p].value

(***************************************************************************)
(* More claims about loadChannels, checked under SpecLoad.                 *)
(***************************************************************************)
\* The request is the probe's, against the path given.
ProbeRequestTo(rq, path) ==
    /\ rq.path = path
    /\ rq.probe = "xtream" => rq.query = "action=get_live_streams"
    /\ rq.probe = "m3u" => rq.query = "type=m3u_plus"

\* C25 as stated: every request loadChannels issues, in the hinted branches
\* and in the default branch alike, is against the descriptor's apiPath (the
\* default '/player_api.php' when the descriptor has none).
Orig_C25_ProbesUseOwnApiPath ==
    ld.pc # "idle" =>
        \A k \in 1..Len(ld.requests) : ProbeRequestTo(ld.requests[k], ApiPathOf(ld.desc))

\* What holds: in the hinted branches the one request is against the
\* descriptor's apiPath; in the default branch the requests are against
\* '/player_api.php' and '/get.php'.
HintedProbesUseOwnApiPath ==
    ld.pc # "idle" =>
        /\ ld.branch \in {"xtream", "m3u"} =>
              \A k \in 1..Len(ld.requests) :
                  ProbeRequestTo(ld.requests[k], ApiPathOf(ld.desc))
        /\ ld.branch = "default" =>
              \A k \in 1..Len(ld.requests) :
                  ProbeRequestTo(ld.requests[k],
                                 IF ld.requests[k].probe = "xtream" THEN XtreamDefaultPath
                                 ELSE M3UDefaultPath)

\* C25 failing state: the descriptor's apiPath is 'streams'; both probes were
\* issued, against '/player_api.php' and '/get.php', none against 'streams'.
Wit_C25_OwnPathNeverRequested ==
    /\ LoadDone
    /\ ld.desc.given /\ ld.desc.apiPath = <<"streams">>
    /\ Len(ld.requests) = 2
    /\ ld.requests[1].path = XtreamDefaultPath
    /\ ld.requests[2].path = M3UDefaultPath
    /\ \A k \in 1..2 : ld.requests[k].path # ld.desc.apiPath

\* The positions of the M3U requests among the requests of the load.
M3URequestsAt == {k \in 1..Len(ld.requests) : ld.requests[k].probe = "m3u"}

\* C27: a load issues at most two requests; in the default branch an M3U
\* request is issued only as the second request, after the Xtream probe has
\* completed with a failure; an Xtream probe that succeeds, on an empty array
\* as on any other, ends the load: its channels are returned (none for an
\* empty array) and no M3U request is issued.
Thm_C27_AtMostTwoXtreamFirst ==
    ld.pc # "idle" =>
        /\ Len(ld.requests) <= 2
        /\ ld.branch = "default" =>
              \A k \in M3URequestsAt :
                  /\ k = 2
                  /\ ld.requests[1].probe = "xtream"
                  /\ Len(ld.probes) >= 1
                  /\ ld.probes[1].probe = "xtream"
                  /\ ~ld.probes[1].ok
        /\ (Len(ld.probes) >= 1 /\ ld.probes[1].probe = "xtream" /\ ld.probes[1].ok) =>
              /\ LoadDone
              /\ ld.outcome = "return"
              /\ ld.channels = ld.probes[1].channels
              /\ Len(ld.channels) = Len(ld.server.xtream.data)
              /\ M3URequestsAt = {}
        /\ (ld.pc \in {"m3u", "done"} /\ ld.requests[1].probe = "xtream"
            /\ ld.server.xtream.kind = "array" /\ ld.server.xtream.data = <<>>) =>
              /\ LoadDone
              /\ ld.outcome = "return"
              /\ ld.channels = <<>>
              /\ Len(ld.requests) = 1

\* C27 witness: no hint, the server answered the Xtream request with an empty
\* array: the load returned no channel after that one request.
Wit_C27_EmptyArrayReturned ==
    /\ LoadDone
    /\ Unhinted(ld.desc)
    /\ ld.server.xtream.kind = "array" /\ ld.server.xtream.data = <<>>
    /\ ld.server.m3u.kind = "text" /\ Len(ld.server.m3u.data) = 2
    /\ ld.outcome = "return"
    /\ ld.channels = <<>>
    /\ Len(ld.requests) = 1

(***************************************************************************)
(* The two playlist parsers on the same playlist: M3UParser.parse and the  *)
(* loader's parseSimpleM3U, which loadM3UFromServer falls back on.  The    *)
(* #EXTINF lines drawn have a comma: the name is what follows the last.    *)
(***************************************************************************)
TvgNameOnly == [ExtInf("", "") EXCEPT !.tvgName = "T"]

FallbackLines ==
    {ExtInf("A", "Sports"), ExtInf("B", ""), TvgNameOnly, ExtGrp("News"),
     UrlLine("http://a"), CommentLine}

InitFallback ==
    /\ InitStorage /\ InitChannelStore /\ InitFrames
    /\ pure \in {[pc |-> "idle", fn |-> "parse", input |-> lines, output |-> <<>>,
                  simplePc |-> "idle", simple |-> <<>>] :
                 lines \in SeqsUpTo(FallbackLines, MaxM3ULines)}

\* loadM3UFromServer line 93: M3UParser is loaded.
FallbackParseCall ==
    /\ pure.pc = "idle"
    /\ pure' = [pure EXCEPT !.pc = "done", !.output = parse(pure.input)]
    /\ UNCHANGED <<servers, localSubs, subtitles, srch, auto, net, ld, tc, storeVars, dl>>

\* loadM3UFromServer line 98: it is not.
FallbackSimpleCall ==
    /\ pure.simplePc = "idle"
    /\ pure' = [pure EXCEPT !.simplePc = "done", !.simple = parseSimpleM3U(pure.input)]
    /\ UNCHANGED <<servers, localSubs, subtitles, srch, auto, net, ld, tc, storeVars, dl>>

NextFallback ==
    \/ FallbackParseCall
    \/ FallbackSimpleCall

SpecFallback == InitFallback /\ [][NextFallback]_vars

BothParsed == pure.pc = "done" /\ pure.simplePc = "done"

\* C29 as stated: on every playlist the two parsers give the same number of
\* channels, in the same order, each with the same url, name and category.
Orig_C29_ParsersAgree ==
    BothParsed =>
        /\ Len(pure.output) = Len(pure.simple)
        /\ \A k \in 1..Len(pure.output) :
              /\ pure.output[k].url = pure.simple[k].url
              /\ pure.output[k].name = pure.simple[k].name
              /\ pure.output[k].category = pure.simple[k].category

\* What holds: the same number of channels with the same urls in the same
\* order, and the same names and categories when no line of the playlist is an
\* #EXTGRP line or an #EXTINF line with a tvg-name and nothing after the comma.
ParsersAgreeOnUrls ==
    BothParsed =>
        /\ Len(pure.output) = Len(pure.simple)
        /\ \A k \in 1..Len(pure.output) : pure.output[k].url = pure.simple[k].url
        /\ (\A k \in 1..Len(pure.input) :
               pure.input[k].kind # "extgrp" /\ pure.input[k] # TvgNameOnly) =>
              \A k \in 1..Len(pure.output) :
                  /\ pure.output[k].name = pure.simple[k].name
                  /\ pure.output[k].category = pure.simple[k].category

\* C29 failing state: #EXTINF with group-title Sports, #EXTGRP:News, a URL:
\* M3UParser.parse gives the category News, parseSimpleM3U gives Sports.
Wit_C29_ExtGrpOnlyInParse ==
    /\ BothParsed
    /\ pure.input = <<ExtInf("A", "Sports"), ExtGrp("News"), UrlLine("http://a")>>
    /\ Len(pure.output) = 1 /\ Len(pure.simple) = 1
    /\ pure.output[1].category = "News"
    /\ pure.simple[1].category = "Sports"

\* What a getChannelSubtitle(channelId, L) issued right after the call of proc
\* p returned gives, L being the language of the returned subtitle.
ReadBack(p) == getChannelSubtitle(subtitles, auto[p].channelId, auto[p].value.language)

\* C30 as stated: a call that returned a subtitle leaves it persisted: reading
\* the store back under (channelId, L) gives the returned subtitle, also when
\* the store refused the write.
Orig_C30_ReturnedIsPersisted ==
    \A p \in Procs :
        (AutoDone(p) /\ auto[p].outcome = "return" /\ auto[p].value # Null) =>
            ReadBack(p) = auto[p].value

\* What holds: a returned subtitle that was found saved is in the store, and
\* one the call downloaded is in the store unless the store holds nothing
\* under (channelId, L), the write having been refused.
ReturnedIsPersistedOrRefused ==
    \A p \in Procs :
        (AutoDone(p) /\ auto[p].outcome = "return" /\ auto[p].value # Null) =>
            \/ ReadBack(p) = auto[p].value
            \/ EndedBySaving(p) /\ ReadBack(p) = Null /\ subtitles = auto[p].before

\* C30 failing state: one provider, nothing saved before; the call downloaded
\* a text and returned its subtitle, and the store holds no subtitle at all.
Wit_C30_SuccessReportedNothingStored ==
    \E p \in Procs :
        /\ AutoDone(p)
        /\ Len(servers) = 1
        /\ auto[p].value # Null
        /\ auto[p].value.language = "en"
        /\ ReadBack(p) = Null
        /\ \A key \in DOMAIN subtitles : subtitles[key] = Null

(***************************************************************************)
(* Concurrent auto-loads: the page calls autoLoadSubtitles again while an  *)
(* earlier call is suspended at a request.  The calls run on one thread:   *)
(* each step, from one suspension to the next, is atomic, and the replies  *)
(* arrive in any order.                                                    *)
(***************************************************************************)
\* The providers of the concurrent calls: autoLoad ones listing one language.
RaceConfigs == {c \in AutoConfigs : c.autoLoad /\ Len(c.languages) = 1}

NextRace ==
    \/ AddSubtitleServer(RaceConfigs)
    \/ SaveEarlier
    \/ \E p \in Procs : AutoStart(p)
    \/ \E p \in Procs : SearchReply(p, AutoResponses)
    \/ \E p \in Procs : AutoAfterSearch(p)
    \/ \E p \in Procs : AutoResolveReply(p)
    \/ \E p \in Procs : AutoFetchReply(p)

SpecRace == Init /\ [][NextRace]_vars

\* C28 as stated: whenever a call saves under (channelId, L), the store holds
\* no subtitle under (channelId, L) at that moment, however the calls in
\* flight interleave.
Orig_C28_NeverOverwrites ==
    \A p \in Procs : EndedBySaving(p) => auto[p].replaced = Null

\* C28 failing state: two calls for the same channel began with nothing
\* saved; both downloaded, the second to save found the first's subtitle
\* under (channelId, en) and wrote over it.
Wit_C28_SecondSaveOverwrites ==
    \E p, q \in Procs :
        /\ p # q
        /\ EndedBySaving(p) /\ EndedBySaving(q)
        /\ auto[p].channelId = auto[q].channelId
        /\ \A key \in DOMAIN subtitles : auto[p].before[key] = Null /\ auto[q].before[key] = Null
        /\ auto[p].lang = "en" /\ auto[q].lang = "en"
        /\ auto[p].replaced = Null
        /\ auto[q].replaced = auto[p].value
        /\ subtitles[<<auto[q].channelId, "en">>] = auto[q].value

(***************************************************************************)
(* Termination.  The page calls searchSubtitles or autoLoadSubtitles; the  *)
(* fairness conditions say that every request issued is answered (with a   *)
(* response or a rejection) and that a continuation that can run does run. *)
(***************************************************************************)
\* The providers: autoLoad ones, an opensubtitles provider listing two
\* languages and a custom API listing one.  The answers to a search: a
\* rejected request, or one result.
LiveConfigs ==
    {c \in AutoConfigs :
        c.autoLoad /\ (c.serverType = "custom" \/ Len(c.languages) = 2)}
LiveResponses == {Response("reject", <<>>), Response("items", RawItems(1, "srt", FALSE))}

NextLive ==
    \/ AddSubtitleServer(LiveConfigs)
    \/ SaveEarlier
    \/ \E p \in Solo : SearchStart(p)
    \/ \E p \in Solo : AutoStart(p)
    \/ \E p \in Solo : SearchReply(p, LiveResponses)
    \/ \E p \in Solo : AutoAfterSearch(p)
    \/ \E p \in Solo : AutoResolveReply(p)
    \/ \E p \in Solo : AutoFetchReply(p)

Answered ==
    \A p \in Solo :
        /\ WF_vars(SearchReply(p, LiveResponses))
        /\ WF_vars(AutoAfterSearch(p))
        /\ WF_vars(AutoResolveReply(p))
        /\ WF_vars(AutoFetchReply(p))

SpecLive == Init /\ [][NextLive]_vars /\ Answered

\* A call of proc p is in flight.
SearchInFlight(p) == srch[p].pc = "await"
AutoInFlight(p) == auto[p].pc \in {"searching", "resolving", "fetching"}

\* A search has called each provider at most once; an auto-load has run at
\* most one search and one download for each pair, pair after pair in
\* iteration order, and a saved subtitle found or a save is its last step.
BoundedWork ==
    \A p \in Procs :
        /\ srch[p].pc # "idle" =>
              /\ \A i \in 1..Len(servers) : Len(RepliesOf(p, i)) <= 1
              /\ Len(srch[p].replies) <= Len(servers)
        /\ auto[p].pc # "idle" =>
              /\ Len(PairsTried(p)) <= Len(PairLangs(p))
              /\ \A k \in 1..Len(PairsTried(p)) : PairsTried(p)[k].lang = PairLangs(p)[k]
              /\ auto[p].downloads <= 1
              /\ Len(DownloadRequests(p)) <= 2
              /\ \A k \in 1..Len(auto[p].events) :
                    auto[p].events[k].op \in {"cache", "save"} =>
                        k = Len(auto[p].events) /\ AutoDone(p)

\* C26: when every request is answered, every searchSubtitles call and every
\* autoLoadSubtitles call in flight returns; a search calls each configured
\* provider at most once, and an auto-load runs at most one search and at
\* most one download for each (autoLoad provider, listed language) pair and
\* stops at the first success.
Thm_C26_EveryCallReturns ==
    /\ []BoundedWork
    /\ \A p \in Procs : SearchInFlight(p) ~> srch[p].pc = "done"
    /\ \A p \in Procs : AutoInFlight(p) ~> (AutoDone(p) /\ auto[p].outcome = "return")

\* C26 witness: two autoLoad providers, three pairs in all, each pair searched
\* once and its download failed: the call returned null after every pair.
Wit_C26_AllPairsTriedThenReturned ==
    \E p \in Procs :
        /\ AutoDone(p)
        /\ auto[p].value = Null
        /\ Len(auto[p].asv) = 2
        /\ Len(PairLangs(p)) = 3
        /\ Len(PairsTried(p)) = 3
        /\ auto[p].nreq >= 6

====
